---- MODULE Spec2Model ----
(***************************************************************************)
(* Model of the hibiki streaming pipeline (hibiki-rs/src/stream).          *)
(*                                                                         *)
(* Part 1: the playback ring buffer (PlaybackBuffer), the producer side    *)
(*         (SpeakerSink::push_samples) and the realtime output callback.   *)
(* Part 2: the threads of stream::run and the channels between them.       *)
(*                                                                         *)
(* Sizes are scaled down: the ring holds RING_BUFFER_SIZE slots instead of *)
(* 288000, the bounded channels hold QueueCap chunks instead of 50.  The   *)
(* code is the same for every size; only the numbers differ.               *)
(***************************************************************************)
EXTENDS Integers, Sequences, FiniteSets, TLC

\* ------------------------------------------------------------------ bounds
\* playback.rs:12 (24000 * 12 in the source), scaled
RING_BUFFER_SIZE == 5
\* playback.rs:13, scaled
PAUSE_THRESHOLD == 1
\* playback.rs:14, scaled
RESUME_THRESHOLD == 2
\* playback.rs:15, scaled
INITIAL_FILL_THRESHOLD == 2
\* largest number of frames one output callback asks for (data.len() / channels)
MaxCallbackFrames == 2
\* total number of samples the ring specification pushes
MaxSamples == 12

\* capacity of every bounded channel (mod.rs:110,111,133,134: 50 in the source), scaled
QueueCap == 1
\* frames the input source can deliver in one run
MaxFrames == 2
\* samples in a non-empty PcmChunk returned by process_frame
ChunkLen == 1
\* frames the device asks for during the 0.5 s safety margin of the drain sleep
DrainMargin == 1

\* longest slice handed to one push_samples call in the ring specification:
\* long enough for to_drop to exceed the whole ring
MaxPush == 2 * RING_BUFFER_SIZE + 1

Min(a, b) == IF a <= b THEN a ELSE b

VARIABLES
    buffer,          \* PlaybackBuffer.buffer : [0..RING_BUFFER_SIZE-1 -> sample]
    write_pos,       \* PlaybackBuffer.write_pos
    read_pos,        \* PlaybackBuffer.read_pos
    playing,         \* SpeakerSink.playing (AtomicBool)
    started,         \* SpeakerSink.started (AtomicBool)
    underrun_count,  \* SpeakerSink.underrun_count
    overflow_count,  \* SpeakerSink.overflow_count
    cbPc,            \* output callback: "idle" | "checked", or, followed step by
                     \* step, "decide" | "read" | "unlock" | "write" | "silence"
    cbLen,           \* output callback: local buffer_len
    nextId,          \* samples pushed so far; they are numbered 1, 2, ...
    \* ---- stream::run
    inputMode,       \* "file" | "mic"            (config.input_file / input_device)
    outMode,         \* "both" | "speaker" | "wav" | "none"
    fileFrames,      \* frames the decoded, padded file yields (the last, partial
                     \* or flushed, frame included)
    shutdown,        \* the shutdown flag (AtomicBool)
    signalled,       \* the ctrl-c handler has run
    frameQ,          \* capture channel  (sync_channel(50) of AudioFrame)
    audioQ,          \* audio channel    (sync_channel(50) of Vec<f32>)
    pbQ,             \* playback channel (tee mode)
    wavQ,            \* wav channel      (tee mode)
    textQ,           \* text channel     (unbounded)
    capPc,           \* capture thread
    capResult,       \* its result: "none" | "ok" | "err"
    frame_idx,       \* frames the capture side has handed to send so far
    micPc,           \* mic callback: "idle" | "send"
    micPending,      \* frames the running mic callback still has to send
    error_flag,      \* run_mic_input's error sentinel is Some
    modelPc,         \* model thread
    modelOut,        \* (audio, text) returned by the last process_frame
    modelResult,     \* "none" | "ok" | "err"
    procError,       \* process_frame has returned an error
    frame_times,     \* StreamingModel.frame_times.len()
    audioSent,       \* chunks accepted by the audio channel
    teePc, teeChunk, \* audio-tee thread
    pbPc,            \* playback thread
    pbFailed,        \* SpeakerSink::new failed
    pbResult,        \* the tuple the playback thread returns
    drainDue,        \* frames the device still asks for before the drain sleep ends
    wavPc, wavResult, total_samples, \* wav-writer thread
    textPc,          \* text-printer thread
    drainPc,         \* audio-drain thread
    orchPc,          \* run() itself
    \* ---- StreamingResampler, driven on its own
    rsRate,          \* input_sample_rate given to StreamingResampler::new
    channels,        \* StreamingResampler.channels
    input_len,       \* StreamingResampler.input_len
    accumulated,     \* StreamingResampler.accumulated.len()
    rsFrames,        \* lengths of the frames the last push_samples / flush returned
    rsFed,           \* samples per channel pushed so far
    rsEmitted,       \* samples returned in frames so far
    rsCalls,         \* push_samples calls so far
    rsPc,            \* "idle" | "open" | "flushed"
    \* ---- StreamingModel's latency statistics, driven on their own
    latencies,       \* StreamingModel.frame_times: the elapsed time of every frame
    stats,           \* the ModelStats returned by get_stats
    statPc,          \* "idle" | "open" | "done"
    \* ---- StreamingModel::new, driven on its own
    alphaArg,        \* the cfg_alpha argument
    lmCfg,           \* what new() reads of lm_config and of the loaded lm_model
    cfg_alpha,       \* the local cfg_alpha (rebound at model.rs:75)
    conditions,      \* StreamingModel.conditions
    gen_config,      \* the lm_generate_multistream::Config built by new()
    stateAlpha,      \* the cfg_alpha handed to lm_generate_multistream::State::new
    newPc,           \* position inside new(), "ok" | "err" once it returned
    \* ---- run() from its entry to the loading of the models, driven on its own
    input_file,      \* config.input_file.is_some()
    input_device,    \* config.input_device.is_some()
    disable_speaker, \* config.disable_speaker
    save_output,     \* config.save_output.is_some()
    runPc,           \* position inside run()
    runResult,       \* "none" | "err" (run returned an error)
    handlerSet,      \* ctrlc::set_handler has installed the handler
    channelsMade,    \* the capture, audio and text channels exist
    spawned,         \* names of the threads spawned so far
    \* ---- the time a shutdown takes, driven on its own
    sigLevel,        \* ring level when the playback thread leaves its loop
    monitorWait,     \* ms left of the monitoring loop's sleep at the signal
    recvWait,        \* ms left of the playback thread's recv_timeout at the signal
    elapsed,         \* ms from the signal to the latest step of run()
    pbClock,         \* ms from the signal to the latest step of the playback thread
    timePc,          \* run(): "idle" | "running" | "sleeping" | "joining" | "returned"
    timePb,          \* playback thread: "idle" | "loop" | "sleep" | "done"
    \* ---- thread panics
    panicked,        \* names of the threads that ended in a panic
    \* ---- run_wav_writer, driven on its own
    wavChan,         \* the channel: chunks of f32 samples not yet received
    wavTxOpen,       \* a sender of the channel exists
    wavRecv,         \* the samples received so far, in arrival order
    wavFile,         \* the i16 samples written to the file so far
    wavHeader,       \* the file's header: None before create
    wavTotal,        \* run_wav_writer's total_samples
    wavFilePc,       \* "idle" | "create" | "loop" | "finalize" | "done"
    wavFileResult,   \* "none" | "ok" | "err"
    \* ---- the ring mutex, driven on its own
    lock,            \* holder of the PlaybackBuffer mutex: "free" | "callback" | "push"
    pushPc,          \* push_samples: "idle" | "called" | "locked" | "written" | "logged"
    pushArg,         \* the slice push_samples was called with
    cbFrames,        \* frames the running callback was asked for
    data,            \* the device's output buffer
    TEMP_BUF,        \* the callback's thread-local scratch vector
    ioLog,           \* log calls made so far: who logged, and whether it held
                     \* the ring mutex at that moment
    \* ---- a StreamingResampler followed sample by sample, driven on its own
    resampler,       \* its fields: input_buffer, input_len, accumulated, processed
    splitFed,        \* the interleaved samples pushed so far
    splitOut,        \* the frames returned so far, in order
    splitPc,         \* "idle" | "open" | "flushed"
    \* ---- run_file_input without a resampler, driven on its own
    pcm,             \* the decoded samples, extended by the silence tail
    srcAt,           \* chunks of pcm the loop has gone through
    srcSent,         \* the frames sent, in order
    srcRx,           \* the receiver of the frame queue exists
    srcPc            \* "idle" | "decoded" | "loop" | "done" | "stopped" | "closed"

ringVars == <<buffer, write_pos, read_pos, playing, started, underrun_count,
              overflow_count, cbPc, cbLen, nextId>>

\* the sink's state apart from the callback's position
ringVarsButPc == <<buffer, write_pos, read_pos, playing, started, underrun_count,
                   overflow_count, cbLen, nextId>>

cfgVars == <<inputMode, outMode, fileFrames>>
capVars == <<capPc, capResult, frame_idx, micPc, micPending, error_flag>>
modelVars == <<modelPc, modelOut, modelResult, procError, frame_times, audioSent>>
pbVars == <<pbPc, pbFailed, pbResult, drainDue>>
sinkVars == <<teePc, teeChunk, wavPc, wavResult, total_samples, textPc, drainPc>>
chanVars == <<frameQ, audioQ, pbQ, wavQ, textQ>>

rsVars == <<rsRate, channels, input_len, accumulated, rsFrames, rsFed, rsEmitted,
            rsCalls, rsPc>>
\* state of the components that are also driven on their own
statVars == <<latencies, stats, statPc>>
newVars == <<alphaArg, lmCfg, cfg_alpha, conditions, gen_config, stateAlpha, newPc>>
runVars == <<input_file, input_device, disable_speaker, save_output, runPc, runResult,
             handlerSet, channelsMade, spawned>>
timeVars == <<sigLevel, monitorWait, recvWait, elapsed, pbClock, timePc, timePb>>
joinVars == <<panicked>>
wavVars == <<wavChan, wavTxOpen, wavRecv, wavFile, wavHeader, wavTotal, wavFilePc,
             wavFileResult>>
lockVars == <<lock, pushPc, pushArg, cbFrames, data, TEMP_BUF, ioLog>>
splitVars == <<resampler, splitFed, splitOut, splitPc>>
srcVars == <<pcm, srcAt, srcSent, srcRx, srcPc>>
sampleVars == <<splitVars, srcVars>>
sideVars == <<runVars, timeVars, joinVars, wavVars, lockVars, sampleVars>>
calcVars == <<rsVars, statVars, newVars, sideVars>>

pipeVars == <<cfgVars, calcVars, shutdown, signalled, chanVars, capVars, modelVars,
              pbVars, sinkVars, orchPc>>

vars == <<ringVars, cfgVars, calcVars, shutdown, signalled, chanVars, capVars, modelVars,
          pbVars, sinkVars, orchPc>>

\* --------------------------------------------------------- PlaybackBuffer
\* PlaybackBuffer::available
Available(w, r) ==
    IF w >= r THEN w - r ELSE RING_BUFFER_SIZE - r + w

\* buffer[from .. from+n) as a sequence
Slice(buf, from, n) == [i \in 1..n |-> buf[from + i - 1]]

\* a read that stops at the end of the array instead of wrapping
ReadResultToEnd(buf, w, r, count) ==
    LET available == Available(w, r)
        to_read   == Min(Min(count, available), RING_BUFFER_SIZE - r)
    IN  IF to_read = 0
        THEN [out |-> <<>>, read_pos |-> r]
        ELSE [out |-> Slice(buf, r, to_read),
              read_pos |-> (r + to_read) % RING_BUFFER_SIZE]

\* a read that copies the samples out and leaves the read cursor where it was
ReadResultKeepsCursor(buf, w, r, count) ==
    LET available == Available(w, r)
        to_read   == Min(count, available)
    IN  [out |-> [i \in 1..to_read |-> buf[(r + i - 1) % RING_BUFFER_SIZE]],
         read_pos |-> r]

\* PlaybackBuffer::read: the samples copied out and the new read cursor
ReadResult(buf, w, r, count) ==
    LET available == Available(w, r)
        to_read   == Min(count, available)
    IN  IF to_read = 0
        THEN [out |-> <<>>, read_pos |-> r]
        ELSE IF r + to_read <= RING_BUFFER_SIZE
        THEN [out |-> Slice(buf, r, to_read),
              read_pos |-> (r + to_read) % RING_BUFFER_SIZE]
        ELSE LET first_chunk == RING_BUFFER_SIZE - r
             IN  [out |-> Slice(buf, r, first_chunk)
                          \o Slice(buf, 0, to_read - first_chunk),
                  read_pos |-> to_read - first_chunk]

\* a write that forgets to wrap the write cursor
WriteResultNoWrap(buf, w, r, samples) ==
    LET available  == Available(w, r)
        free       == RING_BUFFER_SIZE - available - 1
        overflowed == Len(samples) > free
        to_drop    == Len(samples) - free
        r2         == IF overflowed THEN (r + to_drop) % RING_BUFFER_SIZE ELSE r
        to_write   == Min(Len(samples), free)
    IN  [buffer |-> [i \in 0..RING_BUFFER_SIZE-1 |->
                        IF i >= w /\ i < w + to_write THEN samples[i - w + 1]
                        ELSE buf[i]],
         write_pos |-> w + to_write, read_pos |-> r2, overflowed |-> overflowed,
         free |-> free, to_write |-> to_write,
         to_drop |-> IF overflowed THEN to_drop ELSE 0]

\* PlaybackBuffer::write: the new array and cursors, the overflow bit, and the
\* locals free, to_write and to_drop
WriteResult(buf, w, r, samples) ==
    LET available  == Available(w, r)
        free       == RING_BUFFER_SIZE - available - 1
        overflowed == Len(samples) > free
        to_drop    == Len(samples) - free
        r2         == IF overflowed THEN (r + to_drop) % RING_BUFFER_SIZE ELSE r
        to_write   == Min(Len(samples), free)
    IN  IF w + to_write <= RING_BUFFER_SIZE
        THEN [buffer |-> [i \in 0..RING_BUFFER_SIZE-1 |->
                            IF i >= w /\ i < w + to_write THEN samples[i - w + 1]
                            ELSE buf[i]],
              write_pos |-> (w + to_write) % RING_BUFFER_SIZE,
              read_pos |-> r2, overflowed |-> overflowed,
              free |-> free, to_write |-> to_write,
              to_drop |-> IF overflowed THEN to_drop ELSE 0]
        ELSE LET first_chunk == RING_BUFFER_SIZE - w
             IN  [buffer |-> [i \in 0..RING_BUFFER_SIZE-1 |->
                                IF i >= w THEN samples[i - w + 1]
                                ELSE IF i < to_write - first_chunk
                                     THEN samples[first_chunk + i + 1]
                                     ELSE buf[i]],
                  write_pos |-> to_write - first_chunk,
                  read_pos |-> r2, overflowed |-> overflowed,
                  free |-> free, to_write |-> to_write,
                  to_drop |-> IF overflowed THEN to_drop ELSE 0]

\* SpeakerSink::buffer_level
buffer_level == Available(write_pos, read_pos)

\* what a read of everything available would return: the queued samples, oldest first
Content == ReadResult(buffer, write_pos, read_pos, buffer_level).out

\* the samples numbered from+1 .. from+n
Fresh(from, n) == [i \in 1..n |-> from + i]

NoOut == [audio |-> 0, text |-> FALSE]
NoResult == <<>>

\* a push that counts the samples it dropped instead of the overflowing calls
PushCountsDropped(samples) ==
    LET res == WriteResult(buffer, write_pos, read_pos, samples)
    IN  /\ buffer' = res.buffer
        /\ write_pos' = res.write_pos
        /\ read_pos' = res.read_pos
        /\ overflow_count' = overflow_count + res.to_drop

\* SpeakerSink::push_samples on the shared state
push_samples(samples) ==
    LET res == WriteResult(buffer, write_pos, read_pos, samples)
    IN  /\ buffer' = res.buffer
        /\ write_pos' = res.write_pos
        /\ read_pos' = res.read_pos
        /\ overflow_count' = IF res.overflowed THEN overflow_count + 1
                             ELSE overflow_count

\* ------------------------------------------------------- output callback
\* the SpeakerSink (and with it the cpal output stream) exists: created by the
\* playback thread, dropped when that thread returns
SinkAlive == pbPc \in {"loop", "drain", "sleep"}

\* first half of the output callback: the level check under the lock
CallbackCheck ==
    /\ SinkAlive
    /\ cbPc = "idle"
    /\ cbLen' = buffer_level
    /\ cbPc' = "checked"
    /\ UNCHANGED <<buffer, write_pos, read_pos, playing, started, underrun_count,
                   overflow_count, nextId>>
    /\ UNCHANGED pipeVars

\* the thresholds the callback compares the level with (playback.rs:13-15), scaled
Thresholds ==
    [initial |-> INITIAL_FILL_THRESHOLD,
     pause   |-> PAUSE_THRESHOLD,
     resume  |-> RESUME_THRESHOLD]

\* a callback that falls back to buffering whenever it pauses
HysteresisRebuffer(th, has_started, is_playing, buffer_len) ==
    IF ~has_started /\ buffer_len < th.initial
    THEN [started |-> has_started, playing |-> is_playing,
          underrun |-> FALSE, drain |-> FALSE]
    ELSE LET resumes == ~is_playing /\ buffer_len >= th.resume
             pauses  == ~resumes /\ is_playing /\ buffer_len < th.pause
             now     == IF resumes THEN TRUE
                        ELSE IF pauses THEN FALSE
                        ELSE IF ~has_started THEN TRUE ELSE is_playing
         IN  [started |-> ~pauses, playing |-> now,
              underrun |-> pauses, drain |-> now]

\* a callback that counts an underrun whenever it finds the level below the
\* pause threshold, paused already or not
HysteresisCountsWhilePaused(th, has_started, is_playing, buffer_len) ==
    IF ~has_started /\ buffer_len < th.initial
    THEN [started |-> has_started, playing |-> is_playing,
          underrun |-> FALSE, drain |-> FALSE]
    ELSE LET resumes == ~is_playing /\ buffer_len >= th.resume
             pauses  == ~resumes /\ is_playing /\ buffer_len < th.pause
             now     == IF resumes THEN TRUE
                        ELSE IF pauses THEN FALSE
                        ELSE IF ~has_started THEN TRUE ELSE is_playing
         IN  [started |-> TRUE, playing |-> now,
              underrun |-> buffer_len < th.pause, drain |-> now]

\* a callback that latches started on the initial fill but leaves playing for
\* the next invocation to set
HysteresisStartsLate(th, has_started, is_playing, buffer_len) ==
    IF ~has_started
    THEN [started |-> buffer_len >= th.initial, playing |-> is_playing,
          underrun |-> FALSE, drain |-> FALSE]
    ELSE HysteresisRebuffer(th, TRUE, is_playing, buffer_len)

\* output callback, lines 145-182: what it stores into started and playing from
\* the flags and the level it loaded, whether it counts an underrun, and whether
\* it goes on to read from the ring
Hysteresis(th, has_started, is_playing, buffer_len) ==
    IF ~has_started /\ buffer_len < th.initial
    THEN \* still buffering: silence, return before any drain
         [started |-> has_started, playing |-> is_playing,
          underrun |-> FALSE, drain |-> FALSE]
    ELSE LET \* if !is_playing && buffer_len >= RESUME_THRESHOLD
             resumes == ~is_playing /\ buffer_len >= th.resume
             \* else if is_playing && buffer_len < PAUSE_THRESHOLD
             pauses  == ~resumes /\ is_playing /\ buffer_len < th.pause
             \* playing_cb.load() at line 182
             now     == IF resumes THEN TRUE
                        ELSE IF pauses THEN FALSE
                        ELSE IF ~has_started THEN TRUE ELSE is_playing
         IN  [started |-> TRUE, playing |-> now,
              underrun |-> pauses, drain |-> now]

\* second half of the output callback, asked for `frames` frames (data.len() /
\* channels): hysteresis, then the drain under the lock
CallbackDrain ==
    /\ cbPc = "checked"
    /\ cbPc' = "idle"
    /\ cbLen' = 0
    /\ \E frames \in 1..MaxCallbackFrames :
        LET h   == Hysteresis(Thresholds, started, playing, cbLen)
            res == ReadResult(buffer, write_pos, read_pos, frames)
        IN  /\ started' = h.started
            /\ playing' = h.playing
            /\ underrun_count' = IF h.underrun THEN underrun_count + 1
                                 ELSE underrun_count
            /\ read_pos' = IF h.drain THEN res.read_pos ELSE read_pos
            /\ UNCHANGED <<buffer, write_pos>>
            /\ drainDue' = IF drainDue > frames THEN drainDue - frames ELSE 0
    /\ UNCHANGED <<overflow_count, nextId>>
    /\ UNCHANGED <<cfgVars, calcVars, shutdown, signalled, chanVars, capVars, modelVars,
                   pbPc, pbFailed, pbResult, sinkVars, orchPc>>

\* ------------------------------------------------ the ring specification
\* a caller pushing a slice of any length
RingPush ==
    /\ \E n \in 0..MaxPush :
          /\ nextId + n <= MaxSamples
          /\ push_samples(Fresh(nextId, n))
          /\ nextId' = nextId + n
    /\ UNCHANGED <<playing, started, underrun_count, cbPc, cbLen>>
    /\ UNCHANGED pipeVars

\* no StreamingResampler is being driven on its own
RsIdle ==
    /\ rsRate = 0 /\ channels = 0 /\ input_len = 0 /\ accumulated = 0
    /\ rsFrames = <<>> /\ rsFed = 0 /\ rsEmitted = 0 /\ rsCalls = 0
    /\ rsPc = "idle"

\* Option<T>: None, Some(x)
None == <<>>
Some(x) == <<x>>

\* ModelStats of an empty frame_times (model.rs:201-207)
NoStats == [avg_time_ms |-> [num |-> 0, den |-> 1], p95_time_ms |-> 0,
            frames_processed |-> 0]

StatIdle == latencies = <<>> /\ stats = NoStats /\ statPc = "idle"

\* no model file read yet
NoLm == [condition_provider |-> FALSE, depformer |-> None, audio_codebooks |-> 0]

NewIdle ==
    /\ alphaArg = None /\ cfg_alpha = None /\ stateAlpha = None
    /\ lmCfg = NoLm /\ conditions = None /\ gen_config = None
    /\ newPc = "idle"

\* run() is not followed from its entry
RunIdle ==
    /\ input_file = FALSE /\ input_device = FALSE
    /\ disable_speaker = FALSE /\ save_output = FALSE
    /\ runPc = "idle" /\ runResult = "none"
    /\ handlerSet = FALSE /\ channelsMade = FALSE /\ spawned = {}

\* no shutdown is being timed
TimeIdle ==
    /\ sigLevel = 0 /\ monitorWait = 0 /\ recvWait = 0 /\ elapsed = 0
    /\ pbClock = 0 /\ timePc = "idle" /\ timePb = "idle"

\* no thread has panicked
JoinIdle == panicked = {}

\* no WAV writer is driven on its own
WavIdle ==
    /\ wavChan = <<>> /\ wavTxOpen = FALSE /\ wavRecv = <<>> /\ wavFile = <<>>
    /\ wavHeader = None /\ wavTotal = 0
    /\ wavFilePc = "idle" /\ wavFileResult = "none"

\* the ring mutex is not followed
LockIdle ==
    /\ lock = "free" /\ pushPc = "idle" /\ pushArg = <<>>
    /\ cbFrames = 0 /\ data = <<>> /\ TEMP_BUF = <<>> /\ ioLog = {}

\* no StreamingResampler is followed sample by sample
SplitIdle == resampler = <<>> /\ splitFed = <<>> /\ splitOut = <<>> /\ splitPc = "idle"
\* no file source is followed sample by sample
SrcIdle ==
    pcm = <<>> /\ srcAt = 0 /\ srcSent = <<>> /\ srcRx = FALSE /\ srcPc = "idle"
SampleIdle == SplitIdle /\ SrcIdle

SideIdle == RunIdle /\ TimeIdle /\ JoinIdle /\ WavIdle /\ LockIdle /\ SampleIdle

\* the components driven on their own stand still
CalcIdle == RsIdle /\ StatIdle /\ NewIdle /\ SideIdle

RingStart ==
    /\ buffer = [i \in 0..RING_BUFFER_SIZE-1 |-> 0]
    /\ write_pos = 0
    /\ read_pos = 0
    /\ playing = FALSE
    /\ started = FALSE
    /\ underrun_count = 0
    /\ overflow_count = 0
    /\ cbPc = "idle"
    /\ cbLen = 0
    /\ nextId = 0

\* a sink that exists while the threads of run() stand still
PipeStill ==
    /\ inputMode = "file" /\ outMode = "speaker"
    /\ fileFrames = 0
    /\ shutdown = FALSE /\ signalled = FALSE
    /\ frameQ = <<>> /\ audioQ = <<>> /\ pbQ = <<>> /\ wavQ = <<>> /\ textQ = <<>>
    /\ capPc = "done" /\ capResult = "ok" /\ frame_idx = 0
    /\ micPc = "idle" /\ micPending = 0 /\ error_flag = FALSE
    /\ modelPc = "unspawned" /\ modelOut = NoOut /\ modelResult = "none"
    /\ procError = FALSE /\ frame_times = 0 /\ audioSent = 0
    /\ teePc = "absent" /\ teeChunk = 0
    /\ pbPc = "loop" /\ pbFailed = FALSE /\ pbResult = NoResult
    /\ drainDue = 0
    /\ wavPc = "absent" /\ wavResult = "none" /\ total_samples = 0
    /\ textPc = "recv"
    /\ drainPc = "absent"
    /\ orchPc = "load"

\* the ring specification: a sink that exists, driven directly by a caller of
\* push_samples and by the device; the threads of run() stand still
RingInit ==
    /\ RingStart
    /\ PipeStill
    /\ CalcIdle

RingNext == RingPush \/ CallbackCheck \/ CallbackDrain

SpecRing == RingInit /\ [][RingNext]_vars

\* ===================================================================== run()
\* ------------------------------------------------------ channel endpoints
\* A SyncSender / Receiver lives until the thread that owns it returns.
\* capture_tx: moved into the capture thread (and, for the microphone, shared
\* with the capture callback, which dies with the stream that thread owns)
FrameTxAlive == capPc # "done"
\* capture_rx and audio_tx, text_tx: held by run() until moved into the model
\* thread; dropped when the thread returns, or when run() returns before spawning it
FrameRxAlive == modelPc # "done" /\ orchPc # "failed"
AudioTxAlive == modelPc # "done" /\ orchPc # "failed"
TextTxAlive  == modelPc # "done" /\ orchPc # "failed"
TextRxAlive  == textPc # "done"
\* audio_rx: owned by the tee, the playback thread, the wav writer or the drain thread
AudioRxAlive ==
    CASE outMode = "both"    -> teePc # "done"
      [] outMode = "speaker" -> pbPc # "done"
      [] outMode = "wav"     -> wavPc # "done"
      [] OTHER               -> drainPc # "done"
\* playback_tx / wav_tx belong to the tee, playback_rx / wav_rx to the two sinks
TeeTxAlive == teePc # "done"
PbRxAlive  == pbPc # "done"
WavRxAlive == wavPc # "done"

\* a send that waits for room whether or not anybody still receives
CanSendRoomOnly(q, rxAlive) == Len(q) < QueueCap

\* SyncSender::send returns: with Ok once the queue has room, with Err as soon
\* as the receiver is gone; otherwise the caller stays blocked in it
CanSend(q, rxAlive) == ~rxAlive \/ Len(q) < QueueCap
\* the queue after send returned
AfterSend(q, rxAlive, x) == IF rxAlive THEN Append(q, x) ELSE q

\* ------------------------------------------------------------ input source
\* run_file_input / run_mic_input up to the first frame: decode the file, or open
\* the device and start the stream; either can fail
CaptureSetup ==
    /\ capPc = "setup"
    /\ \/ /\ capPc' = "loop"
          /\ capResult' = capResult
       \/ /\ capPc' = "done"
          /\ capResult' = "err"
    /\ UNCHANGED <<frame_idx, micPc, micPending, error_flag>>
    /\ UNCHANGED <<ringVars, cfgVars, calcVars, shutdown, signalled, chanVars, modelVars,
                   pbVars, sinkVars, orchPc>>

\* run_file_input: top of the per-frame loop (and the flush after it)
FileLoop ==
    /\ inputMode = "file"
    /\ capPc = "loop"
    /\ IF frame_idx >= fileFrames \/ shutdown
       THEN capPc' = "done" /\ capResult' = "ok"
       ELSE capPc' = "send" /\ capResult' = capResult
    /\ UNCHANGED <<frame_idx, micPc, micPending, error_flag>>
    /\ UNCHANGED <<ringVars, cfgVars, calcVars, shutdown, signalled, chanVars, modelVars,
                   pbVars, sinkVars, orchPc>>

\* run_file_input: tx.send(frame)
FileSend ==
    /\ inputMode = "file"
    /\ capPc = "send"
    /\ CanSend(frameQ, FrameRxAlive)
    /\ frameQ' = AfterSend(frameQ, FrameRxAlive, frame_idx + 1)
    /\ IF FrameRxAlive
       THEN /\ frame_idx' = frame_idx + 1
            /\ capPc' = "loop"
            /\ capResult' = capResult
       ELSE \* receiver dropped
            /\ frame_idx' = frame_idx
            /\ capPc' = "done"
            /\ capResult' = "ok"
    /\ UNCHANGED <<micPc, micPending, error_flag>>
    /\ UNCHANGED <<audioQ, pbQ, wavQ, textQ>>
    /\ UNCHANGED <<ringVars, cfgVars, calcVars, shutdown, signalled, modelVars,
                   pbVars, sinkVars, orchPc>>

\* run_mic_input keeps the stream alive while this holds
MicKeepAlive == ~shutdown

\* run_mic_input: the loop that keeps the stream alive
MicLoop ==
    /\ inputMode = "mic"
    /\ capPc = "loop"
    /\ IF ~MicKeepAlive
       THEN \* drop(stream)
            capPc' = "stop" /\ capResult' = "ok" /\ error_flag' = error_flag
       ELSE /\ error_flag           \* error_flag.take() is Some: bail
            /\ error_flag' = FALSE
            /\ capPc' = "stop"
            /\ capResult' = "err"
    /\ UNCHANGED <<frame_idx, micPc, micPending>>
    /\ UNCHANGED <<ringVars, cfgVars, calcVars, shutdown, signalled, chanVars, modelVars,
                   pbVars, sinkVars, orchPc>>

\* run_mic_input returns: the stream is dropped once no callback is running
MicStop ==
    /\ inputMode = "mic"
    /\ capPc = "stop"
    /\ micPc = "idle"
    /\ capPc' = "done"
    /\ UNCHANGED <<capResult, frame_idx, micPc, micPending, error_flag>>
    /\ UNCHANGED <<ringVars, cfgVars, calcVars, shutdown, signalled, chanVars, modelVars,
                   pbVars, sinkVars, orchPc>>

\* the capture callback starts: handle_input_data pushes the block through the
\* resampler, which fails or returns k complete frames
MicCallback ==
    /\ inputMode = "mic"
    /\ capPc = "loop"
    /\ micPc = "idle"
    /\ \/ /\ error_flag' = TRUE
          /\ UNCHANGED <<micPc, micPending>>
       \/ \E k \in 1..MaxFrames :
             /\ frame_idx + k <= MaxFrames
             /\ micPending' = k
             /\ micPc' = "send"
             /\ error_flag' = error_flag
    /\ UNCHANGED <<capPc, capResult, frame_idx>>
    /\ UNCHANGED <<ringVars, cfgVars, calcVars, shutdown, signalled, chanVars, modelVars,
                   pbVars, sinkVars, orchPc>>

\* handle_input_data: tx.send(frame) for the next frame of the block
MicSend ==
    /\ micPc = "send"
    /\ CanSend(frameQ, FrameRxAlive)
    /\ frameQ' = AfterSend(frameQ, FrameRxAlive, frame_idx + 1)
    /\ IF FrameRxAlive
       THEN /\ frame_idx' = frame_idx + 1
            /\ micPending' = micPending - 1
            /\ micPc' = IF micPending = 1 THEN "idle" ELSE "send"
       ELSE \* receiver dropped: the callback returns, the rest of the block is lost
            /\ frame_idx' = frame_idx
            /\ micPending' = 0
            /\ micPc' = "idle"
    /\ UNCHANGED <<capPc, capResult, error_flag>>
    /\ UNCHANGED <<audioQ, pbQ, wavQ, textQ>>
    /\ UNCHANGED <<ringVars, cfgVars, calcVars, shutdown, signalled, modelVars,
                   pbVars, sinkVars, orchPc>>

\* ------------------------------------------------------------ model thread
\* a loop condition that never looks at the flag
ModelKeepRunningRegardless == TRUE

\* run_model_thread: the loop condition
ModelKeepRunning == ~shutdown

\* a receive that reports Disconnected as soon as the sender is gone, whatever
\* is still queued
ModelPollEarlyDisconnect ==
    /\ modelPc = "top"
    /\ IF ~ModelKeepRunning
       THEN /\ modelPc' = "exit"
            /\ UNCHANGED <<frameQ, shutdown>>
       ELSE IF ~FrameTxAlive
       THEN /\ frameQ' = frameQ
            /\ modelPc' = "exit"
            /\ shutdown' = TRUE
       ELSE /\ frameQ # <<>>
            /\ frameQ' = Tail(frameQ)
            /\ modelPc' = "process"
            /\ shutdown' = shutdown
    /\ UNCHANGED <<modelOut, modelResult, procError, frame_times, audioSent>>
    /\ UNCHANGED <<audioQ, pbQ, wavQ, textQ>>
    /\ UNCHANGED <<ringVars, cfgVars, calcVars, signalled, capVars, pbVars, sinkVars, orchPc>>

\* run_model_thread: one turn of the loop up to the frame: the loop condition, then
\* input_rx.recv_timeout(100 ms).  A Timeout leads straight back here.
ModelPoll ==
    /\ modelPc = "top"
    /\ IF ~ModelKeepRunning
       THEN /\ modelPc' = "exit"
            /\ UNCHANGED <<frameQ, shutdown>>
       ELSE IF frameQ # <<>>
       THEN \* Ok(frame)
            /\ frameQ' = Tail(frameQ)
            /\ modelPc' = "process"
            /\ shutdown' = shutdown
       ELSE \* Disconnected: signal shutdown, break
            /\ ~FrameTxAlive
            /\ frameQ' = frameQ
            /\ modelPc' = "exit"
            /\ shutdown' = TRUE
    /\ UNCHANGED <<modelOut, modelResult, procError, frame_times, audioSent>>
    /\ UNCHANGED <<audioQ, pbQ, wavQ, textQ>>
    /\ UNCHANGED <<ringVars, cfgVars, calcVars, signalled, capVars, pbVars, sinkVars, orchPc>>

\* run_model_thread, the loop head followed step by step: the loop condition
\* alone.  The flag may change before the receive that follows.
ModelCheck ==
    /\ modelPc = "top"
    /\ modelPc' = IF ModelKeepRunning THEN "recv" ELSE "exit"
    /\ UNCHANGED <<modelOut, modelResult, procError, frame_times, audioSent>>
    /\ UNCHANGED <<ringVars, cfgVars, calcVars, shutdown, signalled, chanVars, capVars,
                   pbVars, sinkVars, orchPc>>

\* a receive whose Disconnected arm breaks without storing the flag
ModelRecvSilentDisconnect ==
    /\ modelPc = "recv"
    /\ IF frameQ # <<>>
       THEN /\ frameQ' = Tail(frameQ)
            /\ modelPc' = "process"
       ELSE /\ frameQ' = frameQ
            /\ modelPc' = IF FrameTxAlive THEN "top" ELSE "exit"
    /\ shutdown' = shutdown
    /\ UNCHANGED <<modelOut, modelResult, procError, frame_times, audioSent>>
    /\ UNCHANGED <<audioQ, pbQ, wavQ, textQ>>
    /\ UNCHANGED <<ringVars, cfgVars, calcVars, signalled, capVars, pbVars, sinkVars, orchPc>>

\* run_model_thread: input_rx.recv_timeout(100 ms) and the three arms of its
\* match: Ok(frame), Timeout (continue), Disconnected (store the flag, break)
ModelRecv ==
    /\ modelPc = "recv"
    /\ IF frameQ # <<>>
       THEN /\ frameQ' = Tail(frameQ)
            /\ modelPc' = "process"
            /\ shutdown' = shutdown
       ELSE IF FrameTxAlive
       THEN /\ frameQ' = frameQ
            /\ modelPc' = "top"
            /\ shutdown' = shutdown
       ELSE /\ frameQ' = frameQ
            /\ modelPc' = "exit"
            /\ shutdown' = TRUE
    /\ UNCHANGED <<modelOut, modelResult, procError, frame_times, audioSent>>
    /\ UNCHANGED <<audioQ, pbQ, wavQ, textQ>>
    /\ UNCHANGED <<ringVars, cfgVars, calcVars, signalled, capVars, pbVars, sinkVars, orchPc>>

\* a loop body that sends the text first and then goes back to the top
AfterProcessTextFirst(out) ==
    IF out.text THEN "sendText" ELSE IF out.audio > 0 THEN "sendAudio" ELSE "top"

\* where the loop body goes after process_frame returned Ok((audio, text))
AfterProcess(out) ==
    IF out.audio > 0 THEN "sendAudio" ELSE IF out.text THEN "sendText" ELSE "top"

\* run_model_thread: model.process_frame(&frame), an external computation that
\* returns a chunk (possibly empty) with optional text, or an error
ModelProcess ==
    /\ modelPc = "process"
    /\ \/ \E a \in {0, ChunkLen}, t \in BOOLEAN :
             /\ modelOut' = IF a > 0 \/ t THEN [audio |-> a, text |-> t] ELSE NoOut
             /\ frame_times' = frame_times + 1
             /\ modelPc' = AfterProcess([audio |-> a, text |-> t])
             /\ UNCHANGED <<shutdown, procError>>
       \/ /\ procError' = TRUE
          /\ shutdown' = TRUE
          /\ modelPc' = "exit"
          /\ UNCHANGED <<modelOut, frame_times>>
    /\ UNCHANGED <<modelResult, audioSent>>
    /\ UNCHANGED <<ringVars, cfgVars, calcVars, signalled, chanVars, capVars, pbVars,
                   sinkVars, orchPc>>

\* run_model_thread: let _ = audio_tx.send(audio)
ModelSendAudio ==
    /\ modelPc = "sendAudio"
    /\ CanSend(audioQ, AudioRxAlive)
    /\ audioQ' = AfterSend(audioQ, AudioRxAlive, modelOut.audio)
    /\ audioSent' = IF AudioRxAlive THEN audioSent + 1 ELSE audioSent
    /\ modelPc' = IF modelOut.text THEN "sendText" ELSE "top"
    /\ modelOut' = IF modelOut.text THEN modelOut ELSE NoOut
    /\ UNCHANGED <<modelResult, procError, frame_times>>
    /\ UNCHANGED <<frameQ, pbQ, wavQ, textQ>>
    /\ UNCHANGED <<ringVars, cfgVars, calcVars, shutdown, signalled, capVars, pbVars,
                   sinkVars, orchPc>>

\* run_model_thread: let _ = text_tx.send(text)   (unbounded channel)
ModelSendText ==
    /\ modelPc = "sendText"
    /\ textQ' = AfterSend(textQ, TextRxAlive, frame_times)
    /\ modelPc' = "top"
    /\ modelOut' = NoOut
    /\ UNCHANGED <<modelResult, procError, frame_times, audioSent>>
    /\ UNCHANGED <<frameQ, audioQ, pbQ, wavQ>>
    /\ UNCHANGED <<ringVars, cfgVars, calcVars, shutdown, signalled, capVars, pbVars,
                   sinkVars, orchPc>>

\* what run_model_thread returns after its loop
ModelReturnValue == "ok"

\* run_model_thread: get_stats and return; the thread's channel ends are dropped
ModelExit ==
    /\ modelPc = "exit"
    /\ modelPc' = "done"
    /\ modelResult' = ModelReturnValue
    /\ UNCHANGED <<modelOut, procError, frame_times, audioSent>>
    /\ UNCHANGED <<ringVars, cfgVars, calcVars, shutdown, signalled, chanVars, capVars,
                   pbVars, sinkVars, orchPc>>

\* ---------------------------------------------------------------- audio tee
\* audio-tee thread: audio_rx.recv()
TeeRecv ==
    /\ teePc = "recv"
    /\ IF audioQ # <<>>
       THEN /\ teeChunk' = Head(audioQ)
            /\ audioQ' = Tail(audioQ)
            /\ teePc' = "sendPlayback"
       ELSE /\ ~AudioTxAlive
            /\ teePc' = "done"
            /\ UNCHANGED <<teeChunk, audioQ>>
    /\ UNCHANGED <<wavPc, wavResult, total_samples, textPc, drainPc>>
    /\ UNCHANGED <<frameQ, pbQ, wavQ, textQ>>
    /\ UNCHANGED <<ringVars, cfgVars, calcVars, shutdown, signalled, capVars, modelVars,
                   pbVars, orchPc>>

\* audio-tee thread: let _ = playback_tx.send(samples.clone())
TeeSendPlayback ==
    /\ teePc = "sendPlayback"
    /\ CanSend(pbQ, PbRxAlive)
    /\ pbQ' = AfterSend(pbQ, PbRxAlive, teeChunk)
    /\ teePc' = "sendWav"
    /\ UNCHANGED <<teeChunk, wavPc, wavResult, total_samples, textPc, drainPc>>
    /\ UNCHANGED <<frameQ, audioQ, wavQ, textQ>>
    /\ UNCHANGED <<ringVars, cfgVars, calcVars, shutdown, signalled, capVars, modelVars,
                   pbVars, orchPc>>

\* audio-tee thread: let _ = wav_tx.send(samples)
TeeSendWav ==
    /\ teePc = "sendWav"
    /\ CanSend(wavQ, WavRxAlive)
    /\ wavQ' = AfterSend(wavQ, WavRxAlive, teeChunk)
    /\ teePc' = "recv"
    /\ teeChunk' = 0
    /\ UNCHANGED <<wavPc, wavResult, total_samples, textPc, drainPc>>
    /\ UNCHANGED <<frameQ, audioQ, pbQ, textQ>>
    /\ UNCHANGED <<ringVars, cfgVars, calcVars, shutdown, signalled, capVars, modelVars,
                   pbVars, orchPc>>

\* ---------------------------------------------------------- playback thread
\* the channel the playback thread receives from: playback_rx behind the tee,
\* audio_rx without it
PlaybackIn == IF outMode = "both" THEN pbQ ELSE audioQ
PlaybackTxAlive == IF outMode = "both" THEN TeeTxAlive ELSE AudioTxAlive

\* playback thread: SpeakerSink::new(device)
PlaybackNew ==
    /\ pbPc = "new"
    /\ \/ /\ pbPc' = "loop"
          /\ UNCHANGED <<pbFailed, pbResult>>
       \/ /\ pbPc' = "done"
          /\ pbFailed' = TRUE
          /\ pbResult' = <<0, 0, 0>>
    /\ UNCHANGED drainDue
    /\ UNCHANGED <<ringVars, cfgVars, calcVars, shutdown, signalled, chanVars, capVars,
                   modelVars, sinkVars, orchPc>>

\* playback thread: recv_timeout returned Ok(samples); sink.push_samples(&samples)
PlaybackPush ==
    /\ pbPc = "loop"
    /\ PlaybackIn # <<>>
    /\ LET n == Head(PlaybackIn)
       IN  /\ push_samples(Fresh(nextId, n))
           /\ nextId' = nextId + n
    /\ IF outMode = "both"
       THEN pbQ' = Tail(pbQ) /\ audioQ' = audioQ
       ELSE audioQ' = Tail(audioQ) /\ pbQ' = pbQ
    /\ UNCHANGED <<pbPc, pbFailed, pbResult, drainDue>>
    /\ UNCHANGED <<playing, started, underrun_count, cbPc, cbLen>>
    /\ UNCHANGED <<frameQ, wavQ, textQ>>
    /\ UNCHANGED <<cfgVars, calcVars, shutdown, signalled, capVars, modelVars, sinkVars, orchPc>>

\* playback thread: recv_timeout returned Timeout (nothing queued for 100 ms while
\* a sender exists) or Disconnected (nothing queued and no sender left)
PlaybackIdle ==
    /\ pbPc = "loop"
    /\ PlaybackIn = <<>>
    /\ IF PlaybackTxAlive
       THEN /\ shutdown          \* Timeout: leave only when shutdown is set
            /\ pbPc' = "drain"
       ELSE pbPc' = "drain"      \* Disconnected
    /\ UNCHANGED <<pbFailed, pbResult, drainDue>>
    /\ UNCHANGED <<ringVars, cfgVars, calcVars, shutdown, signalled, chanVars, capVars,
                   modelVars, sinkVars, orchPc>>

\* playback thread after the loop: read the level and sleep level / 24000 + 0.5 s
\* when it is positive.  While the thread sleeps that long the device asks for
\* level + DrainMargin frames.
PlaybackDrain ==
    /\ pbPc = "drain"
    /\ pbPc' = "sleep"
    /\ drainDue' = IF buffer_level > 0 THEN buffer_level + DrainMargin ELSE 0
    /\ UNCHANGED <<pbFailed, pbResult>>
    /\ UNCHANGED <<ringVars, cfgVars, calcVars, shutdown, signalled, chanVars, capVars,
                   modelVars, sinkVars, orchPc>>

\* playback thread: the sleep (if any) is over; return (underruns, overflows,
\* buffer_level).  The sink, its stream and the receiver are dropped: no further
\* callback starts.
PlaybackReturn ==
    /\ pbPc = "sleep"
    /\ drainDue = 0
    /\ pbResult' = <<underrun_count, overflow_count, buffer_level>>
    /\ pbPc' = "done"
    /\ UNCHANGED <<pbFailed, drainDue>>
    /\ UNCHANGED <<ringVars, cfgVars, calcVars, shutdown, signalled, chanVars, capVars,
                   modelVars, sinkVars, orchPc>>

\* ---------------------------------------------------------------- wav writer
WavIn == IF outMode = "both" THEN wavQ ELSE audioQ
WavTxAlive == IF outMode = "both" THEN TeeTxAlive ELSE AudioTxAlive

\* run_wav_writer: hound::WavWriter::create(path, spec)?
WavCreate ==
    /\ wavPc = "create"
    /\ \/ wavPc' = "loop" /\ wavResult' = wavResult
       \/ wavPc' = "done" /\ wavResult' = "err"
    /\ UNCHANGED <<teePc, teeChunk, total_samples, textPc, drainPc>>
    /\ UNCHANGED <<ringVars, cfgVars, calcVars, shutdown, signalled, chanVars, capVars,
                   modelVars, pbVars, orchPc>>

\* run_wav_writer: rx.recv() returned Ok(samples); write_sample(..)? for each
WavWrite ==
    /\ wavPc = "loop"
    /\ WavIn # <<>>
    /\ IF outMode = "both"
       THEN wavQ' = Tail(wavQ) /\ audioQ' = audioQ
       ELSE audioQ' = Tail(audioQ) /\ wavQ' = wavQ
    /\ \/ /\ total_samples' = total_samples + Head(WavIn)
          /\ UNCHANGED <<wavPc, wavResult>>
       \/ /\ wavPc' = "done"            \* a write failed
          /\ wavResult' = "err"
          /\ total_samples' = total_samples
    /\ UNCHANGED <<teePc, teeChunk, textPc, drainPc>>
    /\ UNCHANGED <<frameQ, pbQ, textQ>>
    /\ UNCHANGED <<ringVars, cfgVars, calcVars, shutdown, signalled, capVars,
                   modelVars, pbVars, orchPc>>

\* run_wav_writer: rx.recv() returned Err (channel closed); writer.finalize()?
WavFinalize ==
    /\ wavPc = "loop"
    /\ WavIn = <<>>
    /\ ~WavTxAlive
    /\ wavPc' = "done"
    /\ \/ wavResult' = "ok"
       \/ wavResult' = "err"
    /\ UNCHANGED <<teePc, teeChunk, total_samples, textPc, drainPc>>
    /\ UNCHANGED <<ringVars, cfgVars, calcVars, shutdown, signalled, chanVars, capVars,
                   modelVars, pbVars, orchPc>>

\* ------------------------------------------------ text printer, audio drain
\* text-printer thread: while let Ok(text) = text_rx.recv() { print }
TextPrinter ==
    /\ textPc = "recv"
    /\ IF textQ # <<>>
       THEN /\ textQ' = Tail(textQ)
            /\ textPc' = textPc
       ELSE /\ ~TextTxAlive
            /\ textPc' = "done"
            /\ textQ' = textQ
    /\ UNCHANGED <<teePc, teeChunk, wavPc, wavResult, total_samples, drainPc>>
    /\ UNCHANGED <<frameQ, audioQ, pbQ, wavQ>>
    /\ UNCHANGED <<ringVars, cfgVars, calcVars, shutdown, signalled, capVars,
                   modelVars, pbVars, orchPc>>

\* audio-drain thread: while audio_rx.recv().is_ok() {}
AudioDrain ==
    /\ drainPc = "recv"
    /\ IF audioQ # <<>>
       THEN /\ audioQ' = Tail(audioQ)
            /\ drainPc' = drainPc
       ELSE /\ ~AudioTxAlive
            /\ drainPc' = "done"
            /\ audioQ' = audioQ
    /\ UNCHANGED <<teePc, teeChunk, wavPc, wavResult, total_samples, textPc>>
    /\ UNCHANGED <<frameQ, pbQ, wavQ, textQ>>
    /\ UNCHANGED <<ringVars, cfgVars, calcVars, shutdown, signalled, capVars,
                   modelVars, pbVars, orchPc>>

\* ------------------------------------------------------------- orchestrator
\* a handler that flips the flag instead of setting it
SignalToggles ==
    /\ ~signalled
    /\ signalled' = TRUE
    /\ shutdown' = ~shutdown
    /\ UNCHANGED <<ringVars, cfgVars, calcVars, chanVars, capVars, modelVars, pbVars,
                   sinkVars, orchPc>>

\* ctrlc handler: shutdown.store(true)
SignalHandler ==
    /\ ~signalled
    /\ signalled' = TRUE
    /\ shutdown' = TRUE
    /\ UNCHANGED <<ringVars, cfgVars, calcVars, chanVars, capVars, modelVars, pbVars,
                   sinkVars, orchPc>>

\* run(): StreamingModel::new has loaded the models; spawn the model thread
SpawnModel ==
    /\ orchPc = "load"
    /\ modelPc = "unspawned"
    /\ modelPc' = "top"
    /\ orchPc' = "monitor"
    /\ UNCHANGED <<modelOut, modelResult, procError, frame_times, audioSent>>
    /\ UNCHANGED <<ringVars, cfgVars, calcVars, shutdown, signalled, chanVars, capVars,
                   pbVars, sinkVars>>

\* run(): StreamingModel::new(..)? fails; run() returns the error at once, its
\* channel ends are dropped and no thread is joined
LoadFail ==
    /\ orchPc = "load"
    /\ modelPc = "unspawned"
    /\ orchPc' = "failed"
    /\ UNCHANGED <<ringVars, cfgVars, calcVars, shutdown, signalled, chanVars, capVars,
                   modelVars, pbVars, sinkVars>>

\* run(): while !shutdown { sleep(500 ms) }
Monitor ==
    /\ orchPc = "monitor"
    /\ shutdown
    /\ orchPc' = "joinCapture"
    /\ UNCHANGED <<ringVars, cfgVars, calcVars, shutdown, signalled, chanVars, capVars,
                   modelVars, pbVars, sinkVars>>

\* a JoinHandle::join returns once the thread has; an Option handle that is None
\* is skipped
Joinable(pc) == pc \in {"done", "absent"}

\* the positions of run() in its shutdown sequence, the last being its return
JoinOrder == <<"joinCapture", "joinModel", "joinPlayback", "joinWav", "joinText", "done">>
\* the threads joined at those positions
JoinedNames == <<"capture", "model", "playback", "wav-writer", "text-printer">>
JoinedPcs == <<capPc, modelPc, pbPc, wavPc, textPc>>

\* a join sequence that gives up at the first panicked thread
JoinAbortsOnPanic ==
    /\ \E i \in 1..5 :
          /\ orchPc = JoinOrder[i]
          /\ Joinable(JoinedPcs[i])
          /\ orchPc' = IF JoinedNames[i] \in panicked THEN "failed"
                       ELSE JoinOrder[i + 1]
    /\ UNCHANGED <<ringVars, cfgVars, calcVars, shutdown, signalled, chanVars, capVars,
                   modelVars, pbVars, sinkVars>>

\* run(): the join sequence
Join ==
    /\ \/ orchPc = "joinCapture"  /\ Joinable(capPc)   /\ orchPc' = "joinModel"
       \/ orchPc = "joinModel"    /\ Joinable(modelPc) /\ orchPc' = "joinPlayback"
       \/ orchPc = "joinPlayback" /\ Joinable(pbPc)    /\ orchPc' = "joinWav"
       \/ orchPc = "joinWav"      /\ Joinable(wavPc)   /\ orchPc' = "joinText"
       \/ orchPc = "joinText"     /\ Joinable(textPc)  /\ orchPc' = "done"
    /\ UNCHANGED <<ringVars, cfgVars, calcVars, shutdown, signalled, chanVars, capVars,
                   modelVars, pbVars, sinkVars>>

\* ------------------------------------------------------ the pipeline as a whole
\* the state of run() once the channels exist and the capture, sink and text
\* threads are spawned (mod.rs:110-281); the model is still loading
PipeStart ==
    /\ RingStart
    /\ inputMode \in {"file", "mic"}
    /\ outMode \in {"both", "speaker", "wav", "none"}
    /\ shutdown = FALSE /\ signalled = FALSE
    /\ frameQ = <<>> /\ audioQ = <<>> /\ pbQ = <<>> /\ wavQ = <<>> /\ textQ = <<>>
    /\ capPc = "setup" /\ capResult = "none" /\ frame_idx = 0
    /\ micPc = "idle" /\ micPending = 0 /\ error_flag = FALSE
    /\ modelPc = "unspawned" /\ modelOut = NoOut /\ modelResult = "none"
    /\ procError = FALSE /\ frame_times = 0 /\ audioSent = 0
    /\ teePc = (IF outMode = "both" THEN "recv" ELSE "absent") /\ teeChunk = 0
    /\ pbPc = (IF outMode \in {"both", "speaker"} THEN "new" ELSE "absent")
    /\ pbFailed = FALSE /\ pbResult = NoResult
    /\ drainDue = 0
    /\ wavPc = (IF outMode \in {"both", "wav"} THEN "create" ELSE "absent")
    /\ wavResult = "none" /\ total_samples = 0
    /\ textPc = "recv"
    /\ drainPc = (IF outMode = "none" THEN "recv" ELSE "absent")
    /\ orchPc = "load"

\* the same with a source of any length up to MaxFrames frames
PipeInit ==
    /\ PipeStart
    /\ fileFrames \in (IF inputMode = "file" THEN 1..MaxFrames ELSE {0})
    /\ CalcIdle

FileCapture == CaptureSetup \/ FileLoop \/ FileSend
MicCapture == CaptureSetup \/ MicLoop \/ MicStop \/ MicCallback \/ MicSend
Model == ModelPoll \/ ModelProcess \/ ModelSendAudio \/ ModelSendText \/ ModelExit
Tee == TeeRecv \/ TeeSendPlayback \/ TeeSendWav
Playback == PlaybackNew \/ PlaybackPush \/ PlaybackIdle \/ PlaybackDrain
               \/ PlaybackReturn
OutputDevice == CallbackCheck \/ CallbackDrain
WavWriter == WavCreate \/ WavWrite \/ WavFinalize
Orchestrator == SpawnModel \/ LoadFail \/ Monitor \/ Join
\* the threads every configuration runs
Core == SignalHandler \/ Model \/ TextPrinter \/ Orchestrator

PipeNext ==
    \/ Core
    \/ FileCapture
    \/ MicCapture
    \/ Tee
    \/ Playback
    \/ OutputDevice
    \/ WavWriter
    \/ AudioDrain

\* run() under every configuration
Spec == PipeInit /\ [][PipeNext]_vars

\* run() with a file input and the speaker only
SpeakerInit == PipeInit /\ inputMode = "file" /\ outMode = "speaker"
SpeakerNext == Core \/ FileCapture \/ Playback \/ OutputDevice
SpecSpeaker == SpeakerInit /\ [][SpeakerNext]_vars

\* file -> model -> speaker with the model thread's loop head taken in two
\* steps (condition, then receive), so that the flag can change in between
ModelLoop == ModelCheck \/ ModelRecv \/ ModelProcess \/ ModelSendAudio
                \/ ModelSendText \/ ModelExit
ModelLoopNext == SignalHandler \/ ModelLoop \/ TextPrinter \/ Orchestrator
                    \/ FileCapture \/ Playback \/ OutputDevice
SpecModelLoop == SpeakerInit /\ [][ModelLoopNext]_vars

\* run() with a file input, the speaker and a WAV file (the tee)
TeeInit == PipeInit /\ inputMode = "file" /\ outMode = "both"
TeeNext == Core \/ FileCapture \/ Tee \/ Playback \/ OutputDevice \/ WavWriter
SpecTee == TeeInit /\ [][TeeNext]_vars

\* run() with the microphone and a WAV file only
MicInit == PipeInit /\ inputMode = "mic" /\ outMode = "wav"
MicNext == Core \/ MicCapture \/ WavWriter
SpecMic == MicInit /\ [][MicNext]_vars

\* every thread runs whenever it can: the scheduler starves none of them, the
\* output device keeps asking for frames while its stream exists, and a pending
\* microphone callback gets to hand over its frames.  Nothing forces a signal or
\* a microphone callback to happen.
Fairness ==
    /\ WF_vars(FileCapture)
    /\ WF_vars(MicLoop \/ MicStop)
    /\ WF_vars(MicSend)
    /\ WF_vars(Model)
    /\ WF_vars(Tee)
    /\ WF_vars(Playback)
    /\ WF_vars(OutputDevice)
    /\ WF_vars(WavWriter)
    /\ WF_vars(TextPrinter)
    /\ WF_vars(AudioDrain)
    /\ WF_vars(Orchestrator)

\* run() under fair scheduling: a file into the speaker, a WAV file or nothing, the
\* microphone into a WAV file or nothing, and a one-frame file into the tee
FairInit ==
    /\ PipeInit
    /\ \/ inputMode = "file" /\ outMode \in {"speaker", "wav", "none"}
       \/ inputMode = "mic" /\ outMode \in {"wav", "none"}
       \/ inputMode = "file" /\ outMode = "both" /\ fileFrames = 1
FairPipe == FairInit /\ [][PipeNext]_vars /\ Fairness

\* ----------------------------------------- StreamingResampler at full scale
\* resampler.rs:8
TARGET_SAMPLE_RATE == 24000
\* resampler.rs:9
FRAME_SIZE == 1920
\* resampler.rs:29: the fixed input block of the resampler, which is also the
\* length of every input_buffer channel
CHUNK_SIZE == 1024
\* by how many frames the output of one processed block can fall short of
\* CHUNK_SIZE * ratio (the interpolator's delay)
ResamplerLag == 6
\* push_samples calls in one run of the resampler specification
MaxCalls == 3

\* input rates and slice lengths (interleaved samples) the specification draws
Rates == {8000, 16000, 24000, 48000}
PushSizes == {1, 500, 1024, 1920, 2500}

\* frames process_into_buffer writes for one full input block at best
ChunkOut(rate) == (CHUNK_SIZE * TARGET_SAMPLE_RATE) \div rate
\* out_len of one process_into_buffer / process_partial_into_buffer call; the
\* partial call pads its input with zeros to a full block and processes that
OutLens(rate) == {ChunkOut(rate) - ResamplerLag, ChunkOut(rate)}
\* the sum of out_len over k processed blocks
OutSums(rate, k) == {k * ChunkOut(rate) - j * ResamplerLag : j \in 0..k}

\* a push that takes at most one frame out of the accumulator
PushResultOneFrame(il, acc, len, ch, out) ==
    LET samples_per_channel == len \div ch
        filled == il + samples_per_channel
        acc2   == acc + out
        n      == IF acc2 >= FRAME_SIZE THEN 1 ELSE 0
    IN  [input_len   |-> filled % CHUNK_SIZE,
         accumulated |-> acc2 - n * FRAME_SIZE,
         frames      |-> [i \in 1..n |-> FRAME_SIZE],
         fed         |-> samples_per_channel]

\* StreamingResampler::push_samples on a slice of len interleaved samples, the
\* blocks it processes yielding out frames in all: the copy loop fills the
\* input buffer and processes it each time it is full, then every complete
\* frame is taken out of the accumulator
PushResult(il, acc, len, ch, out) ==
    LET samples_per_channel == len \div ch
        filled == il + samples_per_channel
        acc2   == acc + out
        n      == acc2 \div FRAME_SIZE
    IN  [input_len   |-> filled % CHUNK_SIZE,
         accumulated |-> acc2 % FRAME_SIZE,
         frames      |-> [i \in 1..n |-> FRAME_SIZE],
         fed         |-> samples_per_channel]

\* blocks a push of len interleaved samples processes
BlocksOf(il, len, ch) == (il + len \div ch) \div CHUNK_SIZE

\* StreamingResampler::flush, the partial block (if any) yielding out frames
FlushResult(il, acc, out) ==
    LET acc2 == IF il > 0 THEN acc + out ELSE acc
    IN  [input_len   |-> 0,
         accumulated |-> 0,
         frames      |-> IF acc2 > 0 THEN <<FRAME_SIZE>> ELSE <<>>,
         discarded   |-> IF acc2 > FRAME_SIZE THEN acc2 - FRAME_SIZE ELSE 0]

RsPush ==
    /\ rsPc = "open"
    /\ rsCalls < MaxCalls
    /\ \E len \in PushSizes :
         \E out \in OutSums(rsRate, BlocksOf(input_len, len, channels)) :
            LET res == PushResult(input_len, accumulated, len, channels, out)
            IN  /\ input_len' = res.input_len
                /\ accumulated' = res.accumulated
                /\ rsFrames' = res.frames
                /\ rsFed' = rsFed + res.fed
                /\ rsEmitted' = rsEmitted + Len(res.frames) * FRAME_SIZE
    /\ rsCalls' = rsCalls + 1
    /\ UNCHANGED <<rsRate, channels, rsPc>>
    /\ UNCHANGED <<ringVars, cfgVars, sideVars, statVars, newVars, shutdown, signalled, chanVars, capVars,
                   modelVars, pbVars, sinkVars, orchPc>>

RsFlush ==
    /\ rsPc = "open"
    /\ \E out \in OutLens(rsRate) :
          LET res == FlushResult(input_len, accumulated, out)
          IN  /\ input_len' = res.input_len
              /\ accumulated' = res.accumulated
              /\ rsFrames' = res.frames
              /\ rsEmitted' = rsEmitted + Len(res.frames) * FRAME_SIZE
    /\ rsPc' = "flushed"
    /\ UNCHANGED <<rsRate, channels, rsFed, rsCalls>>
    /\ UNCHANGED <<ringVars, cfgVars, sideVars, statVars, newVars, shutdown, signalled, chanVars, capVars,
                   modelVars, pbVars, sinkVars, orchPc>>

\* StreamingResampler::new(input_sample_rate, channels)
RsInit ==
    /\ rsRate \in Rates
    /\ channels \in {1, 2}
    /\ input_len = 0 /\ accumulated = 0
    /\ rsFrames = <<>> /\ rsFed = 0 /\ rsEmitted = 0 /\ rsCalls = 0
    /\ rsPc = "open"

ResamplerInit == RingStart /\ PipeStill /\ RsInit /\ StatIdle /\ NewIdle /\ SideIdle
ResamplerNext == RsPush \/ RsFlush
\* one StreamingResampler fed by a caller and flushed at the end
SpecResampler == ResamplerInit /\ [][ResamplerNext]_vars

\* ------------------------------------------------ StreamingModel::get_stats
\* most frames whose latency is recorded
MaxTimes == 22
\* most frames slower than the fastest latency
MaxSlow == 2
\* elapsed times of a frame, in seconds
Latencies == {1, 2, 3}

\* n as f32 * 0.95 in f32 arithmetic, then `as usize`: 0.95f32 is
\* 15938355 / 2^24; the exact product is rounded to a 24-bit significand
\* (ties to even) and the cast truncates
F32Times095(n) ==
    LET p    == n * 15938355
        k    == CHOOSE j \in 0..7 :
                   /\ p \div 2^j < 2^24
                   /\ j > 0 => p \div 2^(j-1) >= 2^24
        q    == p \div 2^k
        r    == p % 2^k
        up   == k > 0 /\ (2 * r > 2^k \/ (2 * r = 2^k /\ q % 2 = 1))
        sig  == IF up THEN q + 1 ELSE q
    IN  (sig * 2^k) \div 2^24

\* a percentile index rounded up instead of truncated
P95IndexCeil(n) == (95 * n + 99) \div 100

\* model.rs:213: p95_idx
P95Index(n) == F32Times095(n)

RECURSIVE Insert(_, _)
Insert(x, s) ==
    IF s = <<>> THEN <<x>>
    ELSE IF x <= Head(s) THEN <<x>> \o s
    ELSE <<Head(s)>> \o Insert(x, Tail(s))

\* model.rs:210: sorted.sort_by(partial_cmp)
RECURSIVE Sorted(_)
Sorted(s) == IF s = <<>> THEN <<>> ELSE Insert(Head(s), Sorted(Tail(s)))

\* sorted.iter().sum()
RECURSIVE SumSeq(_)
SumSeq(s) == IF s = <<>> THEN 0 ELSE Head(s) + SumSeq(Tail(s))

\* statistics taken from the latencies in arrival order
GetStatsUnsorted(ft) ==
    IF ft = <<>> THEN NoStats
    ELSE [avg_time_ms      |-> [num |-> SumSeq(ft) * 1000, den |-> Len(ft)],
          p95_time_ms      |-> ft[Min(P95Index(Len(ft)), Len(ft) - 1) + 1] * 1000,
          frames_processed |-> Len(ft)]

\* StreamingModel::get_stats; the mean is kept as the fraction num / den
GetStats(ft) ==
    IF ft = <<>> THEN NoStats
    ELSE LET sorted  == Sorted(ft)
             p95_idx == P95Index(Len(sorted))
         IN  [avg_time_ms      |-> [num |-> SumSeq(sorted) * 1000, den |-> Len(sorted)],
              p95_time_ms      |-> sorted[Min(p95_idx, Len(sorted) - 1) + 1] * 1000,
              frames_processed |-> Len(sorted)]

\* frames slower than the fastest latency
Slow(ft) == Cardinality({i \in 1..Len(ft) : ft[i] > 1})

\* process_frame: self.frame_times.push(elapsed)
StatPush ==
    /\ statPc = "open"
    /\ Len(latencies) < MaxTimes
    /\ \E l \in Latencies :
          /\ l > 1 => Slow(latencies) < MaxSlow
          /\ latencies' = Append(latencies, l)
    /\ UNCHANGED <<stats, statPc>>
    /\ UNCHANGED <<ringVars, cfgVars, sideVars, rsVars, newVars, shutdown, signalled, chanVars,
                   capVars, modelVars, pbVars, sinkVars, orchPc>>

\* run_model_thread: model.get_stats() once the loop is over
StatGet ==
    /\ statPc = "open"
    /\ stats' = GetStats(latencies)
    /\ statPc' = "done"
    /\ UNCHANGED latencies
    /\ UNCHANGED <<ringVars, cfgVars, sideVars, rsVars, newVars, shutdown, signalled, chanVars,
                   capVars, modelVars, pbVars, sinkVars, orchPc>>

\* frame_times: Vec::new()
StatInit == latencies = <<>> /\ stats = NoStats /\ statPc = "open"

StatsInit == RingStart /\ PipeStill /\ RsIdle /\ NewIdle /\ SideIdle /\ StatInit
StatsNext == StatPush \/ StatGet
\* the latency record of one model and the statistics taken from it
SpecStats == StatsInit /\ [][StatsNext]_vars

\* ------------------------------------------------------ StreamingModel::new
\* Some(1.): classifier-free guidance weights are kept in tenths
AlphaOne == Some(10)
\* the cfg_alpha arguments a caller passes
Alphas == {None, Some(5), AlphaOne, Some(30)}
\* what new() reads of lm_config and of the model it loads
LmConfigs ==
    [condition_provider : BOOLEAN,
     depformer          : {None, Some(8), Some(16)},
     audio_codebooks    : {16, 17, 32}]

\* model.rs:60-73: the conditions for the local cfg_alpha a at that point
Conditions(cp, a) ==
    IF ~cp THEN None
    ELSE IF a # None
         THEN Some(<<"very_good", "very_bad">>)
         ELSE Some(<<"very_good">>)

\* model.rs:75
NormaliseAlpha(a) == IF a = AlphaOne THEN None ELSE a

\* model.rs:58: lm_config.depformer.as_ref().map_or(8, |v| v.num_slices)
GeneratedAudioCodebooks(cfg) ==
    IF cfg.depformer = None THEN 8 ELSE cfg.depformer[1]

\* model.rs:78-86
GenConfig(cfg) ==
    [acoustic_delay            |-> 2,
     generated_audio_codebooks |-> GeneratedAudioCodebooks(cfg),
     input_audio_codebooks     |-> cfg.audio_codebooks - GeneratedAudioCodebooks(cfg),
     text_eop_token            |-> 0,
     text_pad_token            |-> 3]

\* the three loads: load_lm_model, mimi::load, SentencePieceProcessor::open;
\* each returns early with its error
NewLoad ==
    /\ newPc \in {"load_lm", "load_mimi", "tokenizer"}
    /\ \/ newPc' = CASE newPc = "load_lm"   -> "load_mimi"
                     [] newPc = "load_mimi" -> "tokenizer"
                     [] newPc = "tokenizer" -> "conditions"
       \/ newPc' = "err"
    /\ UNCHANGED <<alphaArg, lmCfg, cfg_alpha, conditions, gen_config, stateAlpha>>
    /\ UNCHANGED <<ringVars, cfgVars, sideVars, rsVars, statVars, shutdown, signalled, chanVars,
                   capVars, modelVars, pbVars, sinkVars, orchPc>>

\* let conditions = match lm_model.condition_provider() { .. }; a lookup in the
\* provider can fail
NewConditions ==
    /\ newPc = "conditions"
    /\ \/ /\ conditions' = Conditions(lmCfg.condition_provider, cfg_alpha)
          /\ newPc' = "state"
       \/ /\ lmCfg.condition_provider
          /\ newPc' = "err"
          /\ UNCHANGED conditions
    /\ UNCHANGED <<alphaArg, lmCfg, cfg_alpha, gen_config, stateAlpha>>
    /\ UNCHANGED <<ringVars, cfgVars, sideVars, rsVars, statVars, shutdown, signalled, chanVars,
                   capVars, modelVars, pbVars, sinkVars, orchPc>>

\* the rebinding of cfg_alpha, the generation Config and State::new
NewState ==
    /\ newPc = "state"
    /\ cfg_alpha' = NormaliseAlpha(cfg_alpha)
    /\ gen_config' = Some(GenConfig(lmCfg))
    /\ stateAlpha' = cfg_alpha'
    /\ newPc' = "ok"
    /\ UNCHANGED <<alphaArg, lmCfg, conditions>>
    /\ UNCHANGED <<ringVars, cfgVars, sideVars, rsVars, statVars, shutdown, signalled, chanVars,
                   capVars, modelVars, pbVars, sinkVars, orchPc>>

\* entry of StreamingModel::new
NewInit ==
    /\ alphaArg \in Alphas
    /\ lmCfg \in LmConfigs
    /\ cfg_alpha = alphaArg
    /\ conditions = None /\ gen_config = None /\ stateAlpha = None
    /\ newPc = "load_lm"

ModelNewInit == RingStart /\ PipeStill /\ RsIdle /\ StatIdle /\ SideIdle /\ NewInit
ModelNewNext == NewLoad \/ NewConditions \/ NewState
\* one call of StreamingModel::new
SpecModelNew == ModelNewInit /\ [][ModelNewNext]_vars

\* ------------------------------------------------- the file source's frames
\* input.rs:33: samples of silence appended to the decoded file
SILENCE_TAIL == 12000

\* a file source that appends no silence
FileFramesNoTail(n, rate) ==
    IF rate = TARGET_SAMPLE_RATE
    THEN {(n + FRAME_SIZE - 1) \div FRAME_SIZE}
    ELSE {Len(PushResult(0, 0, n, 1, out).frames)
            + Len(FlushResult(PushResult(0, 0, n, 1, out).input_len,
                              PushResult(0, 0, n, 1, out).accumulated, last).frames) :
            out \in OutSums(rate, BlocksOf(0, n, 1)), last \in OutLens(rate)}

\* run_file_input: the numbers of frames it can hand to send for a decoded mono
\* file of n samples at the given rate.  At 24 kHz the padded pcm is cut into
\* chunks of FRAME_SIZE, the last one zero-padded; at any other rate it goes
\* through one push_samples and one flush of a StreamingResampler.
FileFrames(n, rate) ==
    LET len == n + SILENCE_TAIL
    IN  IF rate = TARGET_SAMPLE_RATE
        THEN {(len + FRAME_SIZE - 1) \div FRAME_SIZE}
        ELSE {Len(PushResult(0, 0, len, 1, out).frames)
                + Len(FlushResult(PushResult(0, 0, len, 1, out).input_len,
                                  PushResult(0, 0, len, 1, out).accumulated,
                                  last).frames) :
                out \in OutSums(rate, BlocksOf(0, len, 1)), last \in OutLens(rate)}

\* sample rates of the empty file: one that bypasses the resampler, one that
\* goes through it
EmptyFileRates == {TARGET_SAMPLE_RATE, 2 * TARGET_SAMPLE_RATE}

\* run() on a file that decodes to no sample at all, nothing consuming the audio
EmptyFileInit ==
    /\ PipeStart
    /\ inputMode = "file" /\ outMode = "none"
    /\ rsRate \in EmptyFileRates
    /\ fileFrames \in FileFrames(0, rsRate)
    /\ channels = 0 /\ input_len = 0 /\ accumulated = 0
    /\ rsFrames = <<>> /\ rsFed = 0 /\ rsEmitted = 0 /\ rsCalls = 0
    /\ rsPc = "idle"
    /\ StatIdle /\ NewIdle /\ SideIdle
EmptyFileNext == Core \/ FileCapture \/ AudioDrain
SpecEmptyFile == EmptyFileInit /\ [][EmptyFileNext]_vars

\* ------------------------------------- the callback's decision at full scale
\* thresholds with the pause level above the resume level
FlappingThresholds ==
    [initial |-> TARGET_SAMPLE_RATE \div 10,
     pause   |-> TARGET_SAMPLE_RATE \div 10,
     resume  |-> TARGET_SAMPLE_RATE \div 100]

\* playback.rs:13-15 as the compiler evaluates them
SourceThresholds ==
    [initial |-> TARGET_SAMPLE_RATE \div 10,
     pause   |-> TARGET_SAMPLE_RATE \div 100,
     resume  |-> TARGET_SAMPLE_RATE \div 10]

\* buffer levels a callback can observe (samples): both sides of every threshold
\* the source computes or its comments name
Levels == {0, 239, 240, 1000, 2399, 2400, 3000, 5999, 6000, 11999, 12000}
\* underruns counted in the level specification
MaxUnderruns == 4

\* output callback, line 144: the level it finds; producer and earlier callbacks
\* may have left any level
LevelCheck ==
    /\ SinkAlive
    /\ cbPc = "idle"
    /\ \E lvl \in Levels : cbLen' = lvl
    /\ cbPc' = "checked"
    /\ UNCHANGED <<buffer, write_pos, read_pos, playing, started, underrun_count,
                   overflow_count, nextId>>
    /\ UNCHANGED pipeVars

\* output callback, lines 145-182 with the thresholds of the source; the ring
\* itself is left out
LevelDecide ==
    /\ cbPc = "checked"
    /\ LET h == Hysteresis(SourceThresholds, started, playing, cbLen)
       IN  /\ h.underrun => underrun_count < MaxUnderruns
           /\ started' = h.started
           /\ playing' = h.playing
           /\ underrun_count' = IF h.underrun THEN underrun_count + 1
                                ELSE underrun_count
    /\ cbPc' = "idle"
    /\ cbLen' = 0
    /\ UNCHANGED <<buffer, write_pos, read_pos, overflow_count, nextId>>
    /\ UNCHANGED pipeVars

LevelsNext == LevelCheck \/ LevelDecide
\* the playback state machine driven by arbitrary levels, at the source's scale
SpecLevels == RingInit /\ [][LevelsNext]_vars

\* ------------------------------------------------------ run(): the start-up
\* an input check that only asks for some input
ValidInputEither(file, dev) == file \/ dev

\* mod.rs:73-77: neither (Some, Some) nor (None, None)
ValidInput(file, dev) == file # dev

\* every side component but run()'s start-up stands still
sideButRun == <<timeVars, joinVars, wavVars, lockVars, sampleVars>>
restOfRun == <<ringVars, cfgVars, rsVars, statVars, newVars, sideButRun, shutdown,
               signalled, chanVars, capVars, modelVars, pbVars, sinkVars, orchPc>>

\* run(): the match on (input_file, input_device)
RunValidate ==
    /\ runPc = "validate"
    /\ IF ValidInput(input_file, input_device)
       THEN runPc' = "handler" /\ runResult' = runResult
       ELSE /\ runPc' = "returned"
            /\ runResult' = IF input_file THEN "both inputs" ELSE "no input"
    /\ UNCHANGED <<input_file, input_device, disable_speaker, save_output,
                   handlerSet, channelsMade, spawned>>
    /\ UNCHANGED restOfRun

\* run(): ctrlc::set_handler(..)?
RunSetHandler ==
    /\ runPc = "handler"
    /\ \/ /\ handlerSet' = TRUE
          /\ runPc' = "channels"
          /\ runResult' = runResult
       \/ /\ runPc' = "returned"
          /\ runResult' = "handler"
          /\ UNCHANGED handlerSet
    /\ UNCHANGED <<input_file, input_device, disable_speaker, save_output,
                   channelsMade, spawned>>
    /\ UNCHANGED restOfRun

\* run(): the three channels
RunChannels ==
    /\ runPc = "channels"
    /\ channelsMade' = TRUE
    /\ runPc' = "capture"
    /\ UNCHANGED <<input_file, input_device, disable_speaker, save_output,
                   runResult, handlerSet, spawned>>
    /\ UNCHANGED restOfRun

\* run(): the capture thread; find_input_device or the spawn can fail
RunSpawnCapture ==
    /\ runPc = "capture"
    /\ \/ /\ spawned' = spawned \cup
                 {IF input_file THEN "capture-file" ELSE "capture-mic"}
          /\ runPc' = "routing"
          /\ runResult' = runResult
       \/ /\ runPc' = "returned"
          /\ runResult' = "capture"
          /\ UNCHANGED spawned
    /\ UNCHANGED <<input_file, input_device, disable_speaker, save_output,
                   handlerSet, channelsMade>>
    /\ UNCHANGED restOfRun

\* the threads the routing spawns for a configuration (mod.rs:131-269)
Routing(save, nospeaker) ==
    IF save /\ ~nospeaker THEN {"audio-tee", "playback", "wav-writer"}
    ELSE IF ~nospeaker THEN {"playback"}
    ELSE IF save THEN {"wav-writer"}
    ELSE {"audio-drain"}

\* run(): the audio routing; find_output_device can fail, in the tee branch after
\* the tee thread was spawned
RunRouting ==
    /\ runPc = "routing"
    /\ \/ /\ spawned' = spawned \cup Routing(save_output, disable_speaker)
          /\ runPc' = "text"
          /\ runResult' = runResult
       \/ /\ ~disable_speaker
          /\ spawned' = IF save_output THEN spawned \cup {"audio-tee"} ELSE spawned
          /\ runPc' = "returned"
          /\ runResult' = "output device"
    /\ UNCHANGED <<input_file, input_device, disable_speaker, save_output,
                   handlerSet, channelsMade>>
    /\ UNCHANGED restOfRun

\* run(): the text printer thread
RunSpawnText ==
    /\ runPc = "text"
    /\ \/ /\ spawned' = spawned \cup {"text-printer"}
          /\ runPc' = "load"
          /\ runResult' = runResult
       \/ /\ runPc' = "returned"
          /\ runResult' = "spawn"
          /\ UNCHANGED spawned
    /\ UNCHANGED <<input_file, input_device, disable_speaker, save_output,
                   handlerSet, channelsMade>>
    /\ UNCHANGED restOfRun

\* run(): StreamingModel::new(..)? and the model thread; from then on run() is in
\* its monitoring loop
RunLoad ==
    /\ runPc = "load"
    /\ \/ /\ spawned' = spawned \cup {"model"}
          /\ runPc' = "monitor"
          /\ runResult' = runResult
       \/ /\ runPc' = "returned"
          /\ runResult' = "load"
          /\ UNCHANGED spawned
    /\ UNCHANGED <<input_file, input_device, disable_speaker, save_output,
                   handlerSet, channelsMade>>
    /\ UNCHANGED restOfRun

\* entry of run() with any StreamConfig
RunInit ==
    /\ input_file \in BOOLEAN /\ input_device \in BOOLEAN
    /\ disable_speaker \in BOOLEAN /\ save_output \in BOOLEAN
    /\ runPc = "validate" /\ runResult = "none"
    /\ handlerSet = FALSE /\ channelsMade = FALSE /\ spawned = {}

StartupInit ==
    /\ RingStart /\ PipeStill /\ RsIdle /\ StatIdle /\ NewIdle
    /\ TimeIdle /\ JoinIdle /\ WavIdle /\ LockIdle /\ SampleIdle
    /\ RunInit
StartupNext ==
    \/ RunValidate \/ RunSetHandler \/ RunChannels \/ RunSpawnCapture
    \/ RunRouting \/ RunSpawnText \/ RunLoad
\* run() from its entry until it monitors the running pipeline
SpecStartup == StartupInit /\ [][StartupNext]_vars

\* ------------------------------------------------- the time a shutdown takes
\* ring levels at which the playback thread can leave its loop
ShutdownLevels == {0, 1, 2400, 24000, 36000, 36001, 48000, 287999}
\* ms the monitoring loop's sleep(500 ms) can still have to run at the signal
MonitorWaits == {0, 250, 500}
\* ms the playback thread's recv_timeout(100 ms) can still have to run
RecvWaits == {0, 100}

Max(a, b) == IF a >= b THEN a ELSE b

\* mod.rs:241-246: the playback thread's sleep in ms, drain_seconds + 0.5 s when
\* the level is positive
DrainSleepMs(level) ==
    IF level > 0
    THEN (level * 1000) \div TARGET_SAMPLE_RATE + 500
    ELSE 0

sideButTime == <<runVars, joinVars, wavVars, lockVars, sampleVars>>
restOfTime == <<ringVars, cfgVars, rsVars, statVars, newVars, sideButTime, shutdown,
                signalled, chanVars, capVars, modelVars, pbVars, sinkVars, orchPc>>

\* the ctrl-c handler stores the flag while run() sleeps in its monitoring loop
TimeSignal ==
    /\ timePc = "running"
    /\ timePc' = "sleeping"
    /\ elapsed' = 0 /\ pbClock' = 0
    /\ UNCHANGED <<sigLevel, monitorWait, recvWait, timePb>>
    /\ UNCHANGED restOfTime

\* run(): the sleep ends, the loop condition fails, the joins begin
TimeMonitorWake ==
    /\ timePc = "sleeping"
    /\ timePc' = "joining"
    /\ elapsed' = monitorWait
    /\ UNCHANGED <<sigLevel, monitorWait, recvWait, pbClock, timePb>>
    /\ UNCHANGED restOfTime

\* playback thread: recv_timeout returns Timeout, the flag is set, break
TimePlaybackLeave ==
    /\ timePb = "loop"
    /\ timePc # "running"
    /\ timePb' = "sleep"
    /\ pbClock' = recvWait
    /\ UNCHANGED <<sigLevel, monitorWait, recvWait, elapsed, timePc>>
    /\ UNCHANGED restOfTime

\* playback thread: the drain sleep, then the thread returns
TimePlaybackSleep ==
    /\ timePb = "sleep"
    /\ timePb' = "done"
    /\ pbClock' = pbClock + DrainSleepMs(sigLevel)
    /\ UNCHANGED <<sigLevel, monitorWait, recvWait, elapsed, timePc>>
    /\ UNCHANGED restOfTime

\* run(): the join of the playback thread returns, and with it run()
TimeJoin ==
    /\ timePc = "joining"
    /\ timePb = "done"
    /\ timePc' = "returned"
    /\ elapsed' = Max(elapsed, pbClock)
    /\ UNCHANGED <<sigLevel, monitorWait, recvWait, pbClock, timePb>>
    /\ UNCHANGED restOfTime

TimeInit ==
    /\ sigLevel \in ShutdownLevels
    /\ monitorWait \in MonitorWaits
    /\ recvWait \in RecvWaits
    /\ elapsed = 0 /\ pbClock = 0
    /\ timePc = "running" /\ timePb = "loop"

ShutdownTimeInit ==
    /\ RingStart /\ PipeStill /\ RsIdle /\ StatIdle /\ NewIdle
    /\ RunIdle /\ JoinIdle /\ WavIdle /\ LockIdle /\ SampleIdle
    /\ TimeInit
ShutdownTimeNext ==
    \/ TimeSignal \/ TimeMonitorWake \/ TimePlaybackLeave \/ TimePlaybackSleep
    \/ TimeJoin
\* a signal while the speaker plays, timed from the signal to run()'s return; the
\* capture, model and text threads are taken to end at once
SpecShutdownTime == ShutdownTimeInit /\ [][ShutdownTimeNext]_vars

\* ---------------------------------------------------------- thread panics
\* model thread: process_frame panics (a slice out of range at model.rs:161 or
\* 190); the thread unwinds, its channel ends are dropped, nothing is stored
ModelPanic ==
    /\ modelPc = "process"
    /\ modelPc' = "done"
    /\ panicked' = panicked \cup {"model"}
    /\ UNCHANGED <<modelOut, modelResult, procError, frame_times, audioSent>>
    /\ UNCHANGED <<ringVars, cfgVars, rsVars, statVars, newVars, runVars, timeVars,
                   wavVars, lockVars, sampleVars, shutdown, signalled, chanVars, capVars, pbVars,
                   sinkVars, orchPc>>

\* text-printer thread: print! or stdout().flush().unwrap() panics
TextPanic ==
    /\ textPc = "recv"
    /\ textQ # <<>>
    /\ textPc' = "done"
    /\ panicked' = panicked \cup {"text-printer"}
    /\ UNCHANGED <<teePc, teeChunk, wavPc, wavResult, total_samples, drainPc>>
    /\ UNCHANGED <<ringVars, cfgVars, rsVars, statVars, newVars, runVars, timeVars,
                   wavVars, lockVars, sampleVars, shutdown, signalled, chanVars, capVars, modelVars,
                   pbVars, orchPc>>

\* run() with a one-frame file, the speaker and a WAV file, all five joined
\* threads present, where the model and the text printer can panic
JoinInit == TeeInit /\ fileFrames = 1
JoinNext == TeeNext \/ ModelPanic \/ TextPanic
SpecJoin == JoinInit /\ [][JoinNext]_vars

\* ------------------------------------------------- the four output routings
\* run() under fair scheduling with a two-frame file, so that the second chunk
\* finds the audio channel full, in each of the four output configurations, in
\* a run that no signal interrupts
RoutingInit ==
    /\ PipeInit
    /\ inputMode = "file"
    /\ fileFrames = MaxFrames
\* the model thread is inside audio_tx.send
Sending == modelPc = "sendAudio"
RoutingNext ==
    \/ Model \/ TextPrinter \/ Orchestrator
    \/ FileCapture \/ Tee \/ Playback \/ OutputDevice \/ WavWriter \/ AudioDrain
FairRouting == RoutingInit /\ [][RoutingNext]_vars /\ Fairness

\* ------------------------------------------------- run_wav_writer, by sample
\* wav_writer.rs:21: i16::MAX
I16_MAX == 32767
\* longest chunk sent to the writer
MaxChunkLen == 2
\* number of samples sent to the writer in one run
MaxWavSamples == 3

\* f32 samples, in units of 1 / i16::MAX: inside, at and beyond full scale
SampleValues == {-40000, -1, 0, 1, I16_MAX, 40000}
\* the sign of the dither added to one sample: its magnitude stays below one
\* unit, and its value comes from a pseudo-random sequence
Dithers == {-1, 0, 1}

\* wav_writer.rs:29-34
WavSpec == [channels |-> 1, sample_rate |-> TARGET_SAMPLE_RATE, bits_per_sample |-> 16,
            sample_format |-> "Int"]

\* dither_f32_to_i16: clamp(sample + dither, -1, 1) * i16::MAX, truncated toward zero
dither_f32_to_i16(sample, d) ==
    IF sample > I16_MAX THEN I16_MAX
    ELSE IF sample < -I16_MAX THEN -I16_MAX
    ELSE IF sample > 0 /\ d < 0 THEN sample - 1
    ELSE IF sample < 0 /\ d > 0 THEN sample + 1
    ELSE sample

\* the first k samples of a chunk as written to the file
Converted(c, k, ds) == [i \in 1..k |-> dither_f32_to_i16(c[i], ds[i])]

\* a writer that carries on after a failed write_sample
WriteFailedIgnored(k, n) == FALSE
\* write_sample(..)? failed after k of the n samples of a chunk
WriteFailed(k, n) == k < n

\* number of samples in a sequence of chunks
RECURSIVE ChunkSum(_)
ChunkSum(q) == IF q = <<>> THEN 0 ELSE Len(Head(q)) + ChunkSum(Tail(q))

sideButWav == <<runVars, timeVars, joinVars, lockVars, sampleVars>>
restOfWav == <<ringVars, cfgVars, rsVars, statVars, newVars, sideButWav, shutdown,
               signalled, chanVars, capVars, modelVars, pbVars, sinkVars, orchPc>>

\* the sender: wav_tx.send(samples), which waits for room
WavSend ==
    /\ wavTxOpen
    /\ Len(wavChan) < QueueCap
    /\ \E n \in 0..MaxChunkLen :
          /\ Len(wavRecv) + ChunkSum(wavChan) + n <= MaxWavSamples
          /\ \E c \in [1..n -> SampleValues] : wavChan' = Append(wavChan, c)
    /\ UNCHANGED <<wavTxOpen, wavRecv, wavFile, wavHeader, wavTotal, wavFilePc,
                   wavFileResult>>
    /\ UNCHANGED restOfWav

\* the sender is dropped
WavClose ==
    /\ wavTxOpen
    /\ wavTxOpen' = FALSE
    /\ UNCHANGED <<wavChan, wavRecv, wavFile, wavHeader, wavTotal, wavFilePc,
                   wavFileResult>>
    /\ UNCHANGED restOfWav

\* run_wav_writer: hound::WavWriter::create(path, spec)?
WavFileCreate ==
    /\ wavFilePc = "create"
    /\ \/ /\ wavHeader' = Some(WavSpec)
          /\ wavFilePc' = "loop"
          /\ UNCHANGED wavFileResult
       \/ /\ wavFilePc' = "done"
          /\ wavFileResult' = "err"
          /\ UNCHANGED wavHeader
    /\ UNCHANGED <<wavChan, wavTxOpen, wavRecv, wavFile, wavTotal>>
    /\ UNCHANGED restOfWav

\* run_wav_writer: rx.recv() returned Ok(samples); the for loop over the chunk,
\* which write_sample(..)? leaves at the first failure
WavFileWrite ==
    /\ wavFilePc = "loop"
    /\ wavChan # <<>>
    /\ LET c == Head(wavChan)
       IN  /\ wavChan' = Tail(wavChan)
           /\ wavRecv' = wavRecv \o c
           /\ \E k \in 0..Len(c), ds \in [1..Len(c) -> Dithers] :
                 /\ wavFile' = wavFile \o Converted(c, k, ds)
                 /\ wavTotal' = wavTotal + k
                 /\ IF WriteFailed(k, Len(c))
                    THEN wavFilePc' = "done" /\ wavFileResult' = "err"
                    ELSE UNCHANGED <<wavFilePc, wavFileResult>>
    /\ UNCHANGED <<wavTxOpen, wavHeader>>
    /\ UNCHANGED restOfWav

\* run_wav_writer: rx.recv() returned Err (no sender, nothing queued);
\* writer.finalize()?
WavFileFinalize ==
    /\ wavFilePc = "loop"
    /\ wavChan = <<>>
    /\ ~wavTxOpen
    /\ wavFilePc' = "done"
    /\ \/ wavFileResult' = "ok"
       \/ wavFileResult' = "err"
    /\ UNCHANGED <<wavChan, wavTxOpen, wavRecv, wavFile, wavHeader, wavTotal>>
    /\ UNCHANGED restOfWav

\* the writer thread is spawned with an open channel
WavFileInit ==
    /\ wavChan = <<>> /\ wavTxOpen = TRUE /\ wavRecv = <<>> /\ wavFile = <<>>
    /\ wavHeader = None /\ wavTotal = 0
    /\ wavFilePc = "create" /\ wavFileResult = "none"

WavInit ==
    /\ RingStart /\ PipeStill /\ RsIdle /\ StatIdle /\ NewIdle
    /\ RunIdle /\ TimeIdle /\ JoinIdle /\ LockIdle /\ SampleIdle
    /\ WavFileInit
WavNext == WavSend \/ WavClose \/ WavFileCreate \/ WavFileWrite \/ WavFileFinalize
SpecWav == WavInit /\ [][WavNext]_vars

\* ------------------------------- the ring mutex: callback and push_samples
\* lengths of the slices pushed while the mutex is followed: short ones, one
\* longer than the ring and one longer than twice the ring
LockPushSizes == {1, 3, 7, MaxPush}
\* what the device's output buffer holds before the callback fills it
Stale == -1
\* a buffer returned as the device handed it over
Untouched(n) == [i \in 1..n |-> Stale]
\* data.fill(0.0)
Silence(n) == [i \in 1..n |-> 0]

sideButLock == <<runVars, timeVars, joinVars, wavVars, sampleVars>>
restOfLock == <<cfgVars, rsVars, statVars, newVars, sideButLock, shutdown, signalled,
                chanVars, capVars, modelVars, pbVars, sinkVars, orchPc>>

\* a tracing call by thread `by`, made while it does or does not hold the mutex
Logged(by) == ioLog \cup {[by |-> by, locked |-> lock = by]}

\* callback, line 141-144: the device hands over a buffer of `frames` frames;
\* buffer_cb.lock().unwrap().available(), the guard dropped with the statement
CbLevel ==
    /\ SinkAlive
    /\ cbPc = "idle"
    /\ lock = "free"
    /\ \E frames \in 1..MaxCallbackFrames :
          /\ cbFrames' = frames
          /\ data' \in [1..frames -> {0, Stale}]
    /\ cbLen' = buffer_level
    /\ cbPc' = "decide"
    /\ UNCHANGED <<buffer, write_pos, read_pos, playing, started, underrun_count,
                   overflow_count, nextId>>
    /\ UNCHANGED <<lock, pushPc, pushArg, TEMP_BUF, ioLog>>
    /\ UNCHANGED restOfLock

\* callback, lines 145-179: the flags are loaded, the hysteresis stores into
\* them and logs what it did; while buffering below the initial fill the
\* buffer is zeroed and the callback returns (the "Buffering..." line is
\* logged at most every 500 ms)
CbDecide ==
    /\ cbPc = "decide"
    /\ LET h == Hysteresis(Thresholds, started, playing, cbLen)
       IN  /\ started' = h.started
           /\ playing' = h.playing
           /\ underrun_count' = IF h.underrun THEN underrun_count + 1
                                ELSE underrun_count
           /\ IF ~started /\ cbLen < Thresholds.initial
              THEN /\ data' = Silence(cbFrames)
                   /\ cbPc' = "idle"
                   /\ ioLog' \in {ioLog, Logged("callback")}
              ELSE /\ data' = data
                   /\ cbPc' = "read"
                   /\ ioLog' = IF h.started # started \/ h.playing # playing
                               THEN Logged("callback") ELSE ioLog
    /\ UNCHANGED <<buffer, write_pos, read_pos, overflow_count, cbLen, nextId>>
    /\ UNCHANGED <<lock, pushPc, pushArg, cbFrames, TEMP_BUF>>
    /\ UNCHANGED restOfLock

\* callback, lines 182-191: if playing, lock and buf.read(frames, &mut temp);
\* otherwise to_read = 0 and the scratch vector is left as it was
CbRead ==
    /\ cbPc = "read"
    /\ IF playing
       THEN /\ lock = "free"
            /\ lock' = "callback"
            /\ LET res == ReadResult(buffer, write_pos, read_pos, cbFrames)
               IN  /\ TEMP_BUF' = res.out
                   /\ read_pos' = res.read_pos
            /\ cbPc' = "unlock"
       ELSE /\ UNCHANGED <<lock, TEMP_BUF, read_pos>>
            /\ cbPc' = "silence"
    /\ UNCHANGED <<buffer, write_pos, playing, started, underrun_count,
                   overflow_count, cbLen, nextId>>
    /\ UNCHANGED <<pushPc, pushArg, cbFrames, data, ioLog>>
    /\ UNCHANGED restOfLock

\* callback, line 191: the guard `buf` goes out of scope with the block
CbUnlock ==
    /\ cbPc = "unlock"
    /\ lock' = "free"
    /\ cbPc' = "write"
    /\ UNCHANGED ringVarsButPc
    /\ UNCHANGED <<pushPc, pushArg, cbFrames, data, TEMP_BUF, ioLog>>
    /\ UNCHANGED restOfLock

\* callback, lines 194-211: to_read samples are copied and the remainder
\* zeroed, or the whole buffer is zeroed when to_read is 0
CbWrite ==
    /\ cbPc \in {"write", "silence"}
    /\ LET to_read == IF cbPc = "write" THEN Len(TEMP_BUF) ELSE 0
       IN  data' = IF to_read > 0
                   THEN [i \in 1..cbFrames |-> IF i <= to_read THEN TEMP_BUF[i] ELSE 0]
                   ELSE Silence(cbFrames)
    /\ cbPc' = "idle"
    /\ UNCHANGED ringVarsButPc
    /\ UNCHANGED <<lock, pushPc, pushArg, cbFrames, TEMP_BUF, ioLog>>
    /\ UNCHANGED restOfLock

\* the playback thread calls sink.push_samples(&samples)
PushCall ==
    /\ pushPc = "idle"
    /\ \E n \in LockPushSizes :
          /\ nextId + n <= MaxSamples
          /\ pushArg' = Fresh(nextId, n)
          /\ nextId' = nextId + n
    /\ pushPc' = "called"
    /\ UNCHANGED <<buffer, write_pos, read_pos, playing, started, underrun_count,
                   overflow_count, cbPc, cbLen>>
    /\ UNCHANGED <<lock, cbFrames, data, TEMP_BUF, ioLog>>
    /\ UNCHANGED restOfLock

\* push_samples, line 235: let mut buf = self.buffer.lock().unwrap()
PushLock ==
    /\ pushPc = "called"
    /\ lock = "free"
    /\ lock' = "push"
    /\ pushPc' = "locked"
    /\ UNCHANGED ringVars
    /\ UNCHANGED <<pushArg, cbFrames, data, TEMP_BUF, ioLog>>
    /\ UNCHANGED restOfLock

\* push_samples, lines 236-240: buf.write(samples); on overflow the counter is
\* incremented and a warning logged
PushWrite ==
    /\ pushPc = "locked"
    /\ LET res == WriteResult(buffer, write_pos, read_pos, pushArg)
       IN  /\ buffer' = res.buffer
           /\ write_pos' = res.write_pos
           /\ read_pos' = res.read_pos
           /\ overflow_count' = IF res.overflowed THEN overflow_count + 1
                                ELSE overflow_count
           /\ ioLog' = IF res.overflowed THEN Logged("push") ELSE ioLog
    /\ pushPc' = "written"
    /\ UNCHANGED <<playing, started, underrun_count, cbPc, cbLen, nextId>>
    /\ UNCHANGED <<lock, pushArg, cbFrames, data, TEMP_BUF>>
    /\ UNCHANGED restOfLock

\* push_samples, lines 241-242: buf.available(), tracing::debug!
PushLog ==
    /\ pushPc = "written"
    /\ ioLog' = Logged("push")
    /\ pushPc' = "logged"
    /\ UNCHANGED ringVars
    /\ UNCHANGED <<lock, pushArg, cbFrames, data, TEMP_BUF>>
    /\ UNCHANGED restOfLock

\* push_samples, lines 243-244: Ok(()) and the guard `buf` goes out of scope
PushReturn ==
    /\ pushPc = "logged"
    /\ lock' = "free"
    /\ pushPc' = "idle"
    /\ pushArg' = <<>>
    /\ UNCHANGED ringVars
    /\ UNCHANGED <<cbFrames, data, TEMP_BUF, ioLog>>
    /\ UNCHANGED restOfLock

Callback == CbLevel \/ CbDecide \/ CbRead \/ CbUnlock \/ CbWrite
PushSamples == PushCall \/ PushLock \/ PushWrite \/ PushLog \/ PushReturn

\* a sink that exists, its callback and its push_samples followed statement
\* by statement; the threads of run() stand still
LockInit ==
    /\ RingStart /\ PipeStill /\ RsIdle /\ StatIdle /\ NewIdle
    /\ RunIdle /\ TimeIdle /\ JoinIdle /\ WavIdle /\ SampleIdle
    /\ LockIdle
LockNext == Callback \/ PushSamples
SpecLock == LockInit /\ [][LockNext]_vars


\* ------------------------------- StreamingResampler, sample by sample, scaled
\* input_buffer[0].len(), the fixed input block (1024 in the source)
BlockLen == 2
\* the frame length (1920 in the source)
FrameLen == 3
\* out_len of a processed block once the interpolator's delay is over
BlockOut == 3
\* samples per channel fed to one resampler, pushes made, and samples per
\* channel in one push
MaxFedFrames == 6
MaxPieces == 4
MaxPiece == 3

\* the sample flush pads a frame with (0.0)
ZeroSample == [of |-> <<>>, at |-> 0]

\* StreamingResampler::new: buffers allocated and zero-filled, nothing pending
NewResampler(ch) ==
    [channels     |-> ch,
     input_buffer |-> [c \in 1..ch |-> [i \in 1..BlockLen |-> 0]],
     input_len    |-> 0,
     accumulated  |-> <<>>,
     processed    |-> <<>>]

\* out_len of the k-th block the interpolator processes: a fixed function of
\* its state, one short on the first block
OutLenOf(k) == IF k = 1 THEN BlockOut - 1 ELSE BlockOut

\* process_into_buffer followed by the downmix: the i-th output sample is a
\* function of every channel of every block processed so far
Resampled(hist) == [i \in 1..OutLenOf(Len(hist)) |-> [of |-> hist, at |-> i]]

\* push_samples, the copy loop from position pos on: de-interleave as much as
\* fits, process the block when it is full
RECURSIVE CopyLoop(_, _, _)
CopyLoop(rs, interleaved, pos) ==
    LET samples_per_channel == Len(interleaved) \div rs.channels
    IN  IF pos >= samples_per_channel THEN rs
        ELSE
        LET space_in_buffer == BlockLen - rs.input_len
            to_copy == Min(space_in_buffer, samples_per_channel - pos)
            buf == [c \in 1..rs.channels |-> [j \in 1..BlockLen |->
                      IF j > rs.input_len /\ j <= rs.input_len + to_copy
                      THEN interleaved[(pos + j - rs.input_len - 1) * rs.channels + c]
                      ELSE rs.input_buffer[c][j]]]
            filled == rs.input_len + to_copy
            hist == Append(rs.processed, buf)
        IN  CopyLoop(IF filled >= BlockLen
                     THEN [rs EXCEPT !.input_buffer = buf, !.input_len = 0,
                                     !.processed = hist,
                                     !.accumulated = rs.accumulated \o Resampled(hist)]
                     ELSE [rs EXCEPT !.input_buffer = buf, !.input_len = filled],
                     interleaved, pos + to_copy)

\* an extraction that takes one frame at most
TakeOneFrame(acc) ==
    IF Len(acc) >= FrameLen THEN <<SubSeq(acc, 1, FrameLen)>> ELSE <<>>

\* push_samples: while accumulated.len() >= FRAME_SIZE, take a frame
RECURSIVE TakeFrames(_)
TakeFrames(acc) ==
    IF Len(acc) >= FrameLen
    THEN <<SubSeq(acc, 1, FrameLen)>> \o TakeFrames(SubSeq(acc, FrameLen + 1, Len(acc)))
    ELSE <<>>

\* StreamingResampler::push_samples: the resampler afterwards and the frames
\* returned
ResamplerPush(rs, interleaved) ==
    LET copied == CopyLoop(rs, interleaved, 0)
        frames == TakeFrames(copied.accumulated)
    IN  [self   |-> [copied EXCEPT !.accumulated =
                        SubSeq(copied.accumulated, Len(frames) * FrameLen + 1,
                               Len(copied.accumulated))],
         frames |-> frames]

\* StreamingResampler::flush: the pending input processed as a zero-padded
\* block, then one padded frame if anything is accumulated
ResamplerFlush(rs) ==
    LET partial == [c \in 1..rs.channels |-> [j \in 1..BlockLen |->
                      IF j <= rs.input_len THEN rs.input_buffer[c][j] ELSE 0]]
        hist == IF rs.input_len > 0 THEN Append(rs.processed, partial) ELSE rs.processed
        acc  == IF rs.input_len > 0 THEN rs.accumulated \o Resampled(hist)
                ELSE rs.accumulated
    IN  [self  |-> [rs EXCEPT !.input_len = 0, !.processed = hist,
                              !.accumulated = <<>>],
         frame |-> IF Len(acc) > 0
                   THEN Some([i \in 1..FrameLen |->
                                 IF i <= Len(acc) THEN acc[i] ELSE ZeroSample])
                   ELSE None]

\* the pieces of a list, one after the other
RECURSIVE Flatten(_)
Flatten(pieces) == IF pieces = <<>> THEN <<>> ELSE Head(pieces) \o Flatten(Tail(pieces))

restOfSplit == <<ringVars, cfgVars, rsVars, statVars, newVars, runVars, timeVars, joinVars,
                 wavVars, lockVars, srcVars, shutdown, signalled, chanVars, capVars,
                 modelVars, pbVars, sinkVars, orchPc>>

\* a caller pushes the next piece: whole sample frames (a multiple of the
\* channel count), each sample standing for its position in the input
SplitPush ==
    /\ splitPc = "open"
    /\ Len(splitFed) < MaxPieces
    /\ \E k \in 0..MaxPiece :
          LET fed   == Len(Flatten(splitFed))
              piece == [i \in 1..(k * resampler.channels) |-> fed + i]
              res   == ResamplerPush(resampler, piece)
          IN  /\ fed + Len(piece) <= MaxFedFrames * resampler.channels
              /\ resampler' = res.self
              /\ splitFed' = Append(splitFed, piece)
              /\ splitOut' = splitOut \o res.frames
    /\ UNCHANGED splitPc
    /\ UNCHANGED restOfSplit

\* the caller flushes at the end of the input
SplitFlush ==
    /\ splitPc = "open"
    /\ LET res == ResamplerFlush(resampler)
       IN  /\ resampler' = res.self
           /\ splitOut' = splitOut \o res.frame
    /\ splitPc' = "flushed"
    /\ UNCHANGED splitFed
    /\ UNCHANGED restOfSplit

SplitInit ==
    /\ RingStart /\ PipeStill /\ RsIdle /\ StatIdle /\ NewIdle
    /\ RunIdle /\ TimeIdle /\ JoinIdle /\ WavIdle /\ LockIdle /\ SrcIdle
    /\ \E ch \in {1, 2} : resampler = NewResampler(ch)
    /\ splitFed = <<>> /\ splitOut = <<>> /\ splitPc = "open"
SplitNext == SplitPush \/ SplitFlush
\* one resampler fed piece by piece and flushed
SpecSplit == SplitInit /\ [][SplitNext]_vars


\* ------------------------ run_file_input at 24 kHz, sample by sample, scaled
\* the silence appended to the decoded samples (12000 in the source), like it
\* not a multiple of the frame length
TailLen == 4
\* samples in the decoded file
MaxFileLen == 5
\* the values a decoded sample takes
SrcSamples == {0, 1}

\* pcm.chunks(FRAME_SIZE): the k-th chunk, counted from 0; the last one may be
\* shorter
Chunk(samples, k) ==
    SubSeq(samples, k * FrameLen + 1, Min((k + 1) * FrameLen, Len(samples)))

\* a frame that is the chunk as it is, without padding
FramedUnpadded(chunk) == chunk

\* let mut frame = [0.0; FRAME_SIZE]; frame[..chunk.len()].copy_from_slice(chunk)
Framed(chunk) == [i \in 1..FrameLen |-> IF i <= Len(chunk) THEN chunk[i] ELSE 0]

restOfSrc == <<ringVars, cfgVars, rsVars, statVars, newVars, runVars, timeVars, joinVars,
               wavVars, lockVars, splitVars, signalled, chanVars, capVars,
               modelVars, pbVars, sinkVars, orchPc>>

\* run_file_input: pcm.extend_from_slice(&vec![0.0; 12000]); the rate is
\* 24 kHz, so no resampler is created
SrcExtend ==
    /\ srcPc = "decoded"
    /\ pcm' = pcm \o [i \in 1..TailLen |-> 0]
    /\ srcPc' = "loop"
    /\ UNCHANGED <<srcAt, srcSent, srcRx, shutdown>>
    /\ UNCHANGED restOfSrc

\* run_file_input: one turn of `for chunk in pcm.chunks(FRAME_SIZE)`
SrcChunk ==
    /\ srcPc = "loop"
    /\ IF srcAt * FrameLen >= Len(pcm)
       THEN \* no chunk left
            /\ srcPc' = "done"
            /\ UNCHANGED <<srcAt, srcSent>>
       ELSE IF shutdown
       THEN \* return Ok(())
            /\ srcPc' = "stopped"
            /\ UNCHANGED <<srcAt, srcSent>>
       ELSE IF Len(Chunk(pcm, srcAt)) < FrameLen
       THEN \* pad the last frame; let _ = tx.send(frame); break
            /\ srcSent' = IF srcRx THEN Append(srcSent, Framed(Chunk(pcm, srcAt)))
                          ELSE srcSent
            /\ srcAt' = srcAt + 1
            /\ srcPc' = "done"
       ELSE IF srcRx
       THEN /\ srcSent' = Append(srcSent, Framed(Chunk(pcm, srcAt)))
            /\ srcAt' = srcAt + 1
            /\ srcPc' = "loop"
       ELSE \* tx.send(frame).is_err(): return Ok(())
            /\ srcPc' = "closed"
            /\ UNCHANGED <<srcAt, srcSent>>
    /\ UNCHANGED <<pcm, srcRx, shutdown>>
    /\ UNCHANGED restOfSrc

\* the model thread returns and drops the receiver of the frame queue
SrcReceiverDrop ==
    /\ srcRx
    /\ srcRx' = FALSE
    /\ UNCHANGED <<pcm, srcAt, srcSent, srcPc, shutdown>>
    /\ UNCHANGED restOfSrc

\* pcm_decode returned the samples of a 24 kHz file
SrcInit ==
    /\ RingStart /\ PipeStill /\ RsIdle /\ StatIdle /\ NewIdle
    /\ RunIdle /\ TimeIdle /\ JoinIdle /\ WavIdle /\ LockIdle /\ SplitIdle
    /\ \E n \in 0..MaxFileLen : pcm \in [1..n -> SrcSamples]
    /\ srcAt = 0 /\ srcSent = <<>> /\ srcRx = TRUE /\ srcPc = "decoded"
SrcNext == SrcExtend \/ SrcChunk \/ SrcReceiverDrop \/ SignalHandler
\* the file source at 24 kHz with a signal and a vanishing receiver
SpecFileSource == SrcInit /\ [][SrcNext]_vars

\* ================================================================== claims
\* free space before a write (the local `free` of PlaybackBuffer::write)
Free == RING_BUFFER_SIZE - buffer_level - 1
\* a step that is a write of n > 0 samples: they are numbered nextId+1 .. nextId'
Written == nextId' - nextId
\* samples of the write just made that are now queued
Accepted == Cardinality({i \in 1..Len(Content') : Content'[i] > nextId})
\* samples queued before the write that are no longer queued
Dropped ==
    Cardinality({i \in 1..Len(Content) :
                    \A j \in 1..Len(Content') : Content'[j] # Content[i]})
\* s is a suffix of t
IsSuffix(s, t) ==
    /\ Len(s) <= Len(t)
    /\ \A i \in 1..Len(s) : s[i] = t[Len(t) - Len(s) + i]

\* C1: every write longer than the free space accepts all of its input and drops
\* len(input) - free of the samples queued before.  Stated for the writes that
\* fit in the ring at all (at most RING_BUFFER_SIZE - 1 samples).
C1_OverflowAcceptsAllDropsOldest ==
    [][ (Written > Free /\ Written <= RING_BUFFER_SIZE - 1)
        => (Accepted = Written /\ Dropped = Written - Free) ]_vars

\* C2: after an overflowing write of at most RING_BUFFER_SIZE - 1 samples the
\* newest sample of the input is the last one queued, and what is queued is the
\* newest part of the old content followed by the input: only oldest samples
\* are lost.
C2_OverflowKeepsNewest ==
    [][ (Written > Free /\ Written <= RING_BUFFER_SIZE - 1)
        => /\ Len(Content') > 0
           /\ Content'[Len(Content')] = nextId'
           /\ IsSuffix(Content', Content \o Fresh(nextId, Written)) ]_vars

\* C10: in every state available() <= CAP - 1 and both cursors are in [0, CAP).
C10_RingBounds ==
    /\ buffer_level <= RING_BUFFER_SIZE - 1
    /\ write_pos \in 0..(RING_BUFFER_SIZE - 1)
    /\ read_pos \in 0..(RING_BUFFER_SIZE - 1)

\* C10 witness: a callback is between its level check and its drain, pushes have
\* overflowed more than once (one of them longer than the ring could ever hold),
\* and the queued samples wrap around the end of the array.
C10_Witness ==
    /\ cbPc = "checked"
    /\ overflow_count >= 2
    /\ nextId > 2 * RING_BUFFER_SIZE
    /\ read_pos > write_pos

\* C3: when the playback thread returns, the ring buffer is empty, whatever was
\* pushed (the third component of what it returns is the level at that moment).
C3_DrainEmptiesRing ==
    (pbPc = "done" /\ ~pbFailed) => pbResult[3] = 0

\* the playback thread has left its receive loop
PlaybackLeftLoop == pbPc \in {"drain", "sleep", "done"} /\ ~pbFailed
\* the input ended by itself: no signal, no processor error, no capture error
InputEndedNormally == ~signalled /\ ~procError /\ capResult = "ok"

\* C4: when the input ends normally, every chunk the model sent to the audio
\* channel has been pushed into the ring by the time the playback thread has left
\* its receive loop.  (The claim adds that the thread leaves the loop only with
\* its channel closed and empty; the chunks are what that is for.)
C4_AllChunksPushedBeforeLeaving ==
    (InputEndedNormally /\ PlaybackLeftLoop) => nextId = audioSent * ChunkLen

\* C5: the tee never waits for a sink: holding a chunk for a sink, it can always
\* go on at once (deliver it, or drop it when that sink's queue is full).
C5_TeeNeverWaits ==
    /\ teePc = "sendPlayback" => ENABLED TeeSendPlayback
    /\ teePc = "sendWav" => ENABLED TeeSendWav

\* C6: the microphone callback never waits for room in the frame queue: while it
\* has a frame to send it can always go on at once.
C6_MicCallbackNeverBlocks ==
    micPc = "send" => ENABLED MicSend

\* C7: after process_frame returned an error the model thread has set the
\* shutdown flag and, once terminated, its result is an error.
C7_ProcessorErrorIsReturned ==
    /\ procError => shutdown
    /\ (procError /\ modelPc = "done") => modelResult = "err"

\* C8: a capture, model, playback or WAV-writer thread that has terminated on a
\* fatal error has set the shutdown flag.
C8_FatalErrorSetsShutdown ==
    /\ (capPc = "done" /\ capResult = "err") => shutdown
    /\ (modelPc = "done" /\ procError) => shutdown
    /\ (pbPc = "done" /\ pbFailed) => shutdown
    /\ (wavPc = "done" /\ wavResult = "err") => shutdown

\* run() has returned
RunReturned == orchPc \in {"done", "failed"}
\* every thread run() keeps a handle of has terminated
ThreadsTerminated ==
    /\ capPc = "done"
    /\ modelPc = "done"
    /\ Joinable(pbPc)
    /\ Joinable(wavPc)
    /\ textPc = "done"
\* run() went through its whole join sequence
RunJoined == orchPc = "done" /\ ThreadsTerminated

Buffering == ~started
Playing == started /\ playing
Paused == started /\ ~playing

\* C11: once has_started is latched the sink never returns to Buffering: no step
\* takes the started flag from true to false, so from then on every state is
\* Playing or Paused.
C11_StartedIsLatched == [][started => started']_vars

\* the sink has started, run dry and paused, and a callback is looking at a
\* level below the initial fill threshold: it stays out of Buffering
C11_Witness ==
    /\ Paused
    /\ underrun_count > 0
    /\ cbPc = "checked"
    /\ cbLen < INITIAL_FILL_THRESHOLD

\* a step in which a callback decides on the level cbLen it found
Decides == cbPc = "checked" /\ cbPc' = "idle"

\* C12: while Playing, a callback moves the state to Paused exactly when it
\* observes available < PAUSE_THRESHOLD, and that threshold is 2400 samples.
C12_PausesBelow2400 ==
    [][ (Decides /\ Playing) => (Paused' <=> cbLen < 2400) ]_vars

\* C13: while Paused, a callback moves the state to Playing exactly when it
\* observes available >= RESUME_THRESHOLD, and that threshold is 6000 samples.
C13_ResumesFrom6000 ==
    [][ (Decides /\ Paused) => (Playing' <=> cbLen >= 6000) ]_vars

\* C14: RESUME_THRESHOLD is strictly greater than PAUSE_THRESHOLD, no level
\* satisfies both the pause and the resume condition, and a Paused sink stays
\* Paused as long as the level it observes is below RESUME_THRESHOLD.
C14_NoFlapping ==
    [][ Decides =>
          /\ SourceThresholds.resume > SourceThresholds.pause
          /\ ~(cbLen < SourceThresholds.pause /\ cbLen >= SourceThresholds.resume)
          /\ (Paused /\ cbLen < SourceThresholds.resume) => Paused' ]_vars

\* a paused sink whose callback finds a level between the two thresholds
C14_Witness ==
    /\ Paused
    /\ cbPc = "checked"
    /\ cbLen >= SourceThresholds.pause
    /\ cbLen < SourceThresholds.resume

\* the least integer not below a / b
CeilDiv(a, b) == (a + b - 1) \div b

\* ceil(N * 24000 / R / 1920) * 1920 for the N samples fed at rate R
ExpectedEmitted ==
    CeilDiv(rsFed * TARGET_SAMPLE_RATE, rsRate * FRAME_SIZE) * FRAME_SIZE

\* C16: after feeding N samples at input rate R in any number of push calls and
\* then calling flush, the samples emitted in frames number
\* ceil(N * 24000 / R / 1920) * 1920.
C16_EmittedCount == rsPc = "flushed" => rsEmitted = ExpectedEmitted

\* C17: every frame returned by a push has exactly 1920 samples, and after every
\* push the accumulator holds fewer than 1920 samples and the input scratch
\* fewer than 1024 pending samples.
C17_PushInvariants ==
    /\ \A i \in 1..Len(rsFrames) : rsFrames[i] = FRAME_SIZE
    /\ accumulated < FRAME_SIZE
    /\ input_len < CHUNK_SIZE

\* a push has returned several frames at once and left both a partial frame and
\* a partial input block behind
C17_Witness ==
    /\ rsPc = "open"
    /\ Len(rsFrames) >= 2
    /\ accumulated > 0
    /\ input_len > 0

\* the file decoded, the model loaded, and nothing but the end of the input
\* stops the run
QuietRun == ~signalled /\ ~procError /\ orchPc # "failed" /\ capResult # "err"

\* C15 as stated: for a 0-sample input file the file source sends no frame to
\* the frame queue and the model processes zero frames.
C15_EmptyFileSendsNothing == frame_idx = 0 /\ frame_times = 0

\* C15, amended: for a 0-sample input file the file source sends the frames of
\* its 12000-sample silence tail (seven at 24 kHz, at least one at any rate),
\* the model processes every one of them, and both threads end without error.
C15_EmptyFileSendsTail ==
    /\ fileFrames >= 1
    /\ rsRate = TARGET_SAMPLE_RATE => fileFrames = 7
    /\ (QuietRun /\ capPc = "done") => (frame_idx = fileFrames /\ capResult = "ok")
    /\ (QuietRun /\ modelPc = "done")
          => (frame_times = fileFrames /\ modelResult = "ok" /\ shutdown)

\* the run on the empty 24 kHz file is over: seven frames of silence processed
C15_Witness ==
    /\ QuietRun
    /\ orchPc = "done"
    /\ rsRate = TARGET_SAMPLE_RATE
    /\ frame_times = 7

\* the statistics returned for the recorded latencies
Mean == stats.avg_time_ms
P95 == stats.p95_time_ms

C19_StatsForAnyCount ==
    statPc = "done" =>
        LET N == Len(latencies)
            k == Min((95 * N) \div 100, N - 1)
        IN  IF N = 0
            THEN stats.frames_processed = 0 /\ Mean.num = 0 /\ P95 = 0
            ELSE /\ stats.frames_processed = N
                 /\ Cardinality({i \in 1..N : latencies[i] * 1000 < P95}) <= k
                 /\ Cardinality({i \in 1..N : latencies[i] * 1000 <= P95}) > k

\* twenty-one latencies whose percentile is below the largest of them
C19_Witness ==
    /\ statPc = "done"
    /\ Len(latencies) = 21
    /\ \E i \in 1..21 : latencies[i] * 1000 > P95

\* C20: a cfg_alpha of Some(1.0) is treated as absent: when new() returns Ok
\* the conditions it stored and the cfg_alpha it handed to the generation state
\* are the ones a cfg_alpha of None gives.
C20_AlphaOneIsAbsent ==
    (newPc = "ok" /\ alphaArg = AlphaOne)
        => /\ stateAlpha = None
           /\ conditions = Conditions(lmCfg.condition_provider, None)

\* run() was given both inputs or none
InvalidInput == input_file = input_device

\* C21: run() checks that exactly one of input_file and input_device is set:
\* with both or neither it returns an error before the signal handler is
\* installed, any channel is created or any thread is spawned, and with exactly
\* one it never returns that error.
C21_InputValidatedFirst ==
    /\ (InvalidInput /\ runPc # "validate")
          => /\ runPc = "returned"
             /\ runResult \in {"both inputs", "no input"}
             /\ ~handlerSet /\ ~channelsMade /\ spawned = {}
    /\ runResult \in {"both inputs", "no input"} => InvalidInput

\* run() has returned the error for a configuration with both inputs set
C21_Witness ==
    /\ input_file /\ input_device
    /\ runPc = "returned"
    /\ runResult = "both inputs"

\* C22: after SIGINT has set the shutdown flag, run() has joined its threads and
\* returned within 2 seconds, whatever the level of the speaker ring buffer.
C22_ShutdownWithin2s == timePc = "returned" => elapsed <= 2000

\* mod.rs:44-48: Metrics holds frames_captured and frames_processed; no counter
\* of dropped input frames exists, so its value never leaves zero
input_dropped == 0

\* C23: every frame the microphone callback obtains from the resampler is
\* either delivered to the frame queue or counted in input_dropped: whenever the
\* number of frames the callback still holds goes down, the frames delivered
\* and the frames counted as dropped go up by as much.
C23_DroppedFramesCounted ==
    [][micPc = "send"
         => micPending - micPending'
               = (frame_idx' - frame_idx) + (input_dropped' - input_dropped)]_vars

\* C24: the shutdown flag is write-once: it starts false, and once the signal
\* handler or the model thread has set it, it is true in every later state.
C24_ShutdownWriteOnce == ~shutdown /\ [][shutdown => shutdown']_vars

\* both writers have stored the flag and run() has finished its shutdown
C24_Witness ==
    /\ shutdown
    /\ signalled /\ procError
    /\ orchPc = "done"

\* C25: on shutdown run() joins capture, model, playback, WAV writer and text
\* printer strictly in that order: it leaves each join only once the joined
\* thread has terminated, and only for the next join (after the last, for its
\* return), whether or not the joined thread panicked.
C25_JoinsInPipelineOrder ==
    [][\A i \in 1..5 :
          (orchPc = JoinOrder[i] /\ orchPc' # orchPc)
             => /\ orchPc' = JoinOrder[i + 1]
                /\ Joinable(JoinedPcs[i])]_vars

\* the model thread panicked and run() still went through every join
C25_Witness ==
    /\ "model" \in panicked
    /\ orchPc = "done"
    /\ capPc = "done" /\ pbPc = "done" /\ wavPc = "done" /\ textPc = "done"

\* the thread that owns audio_rx in the configuration
AudioConsumerPc ==
    CASE outMode = "both"    -> teePc
      [] outMode = "speaker" -> pbPc
      [] outMode = "wav"     -> wavPc
      [] OTHER               -> drainPc

\* C26: in each of the four output configurations a thread owns the receiving
\* end of the model's audio channel, the tee thread exists exactly when both
\* sinks are enabled, and every audio_tx.send of the model thread returns.
C26_AudioSendReturns ==
    /\ [](AudioConsumerPc # "absent")
    /\ [](teePc # "absent" <=> outMode = "both")
    /\ (Sending ~> ~Sending)

\* the model thread waits in send: the channel is full and its receiver alive
C26_Witness ==
    /\ Sending
    /\ Len(audioQ) = QueueCap
    /\ AudioRxAlive
    /\ outMode = "both"

\* C27: the file is created as 24 kHz mono 16-bit integer PCM, and when the
\* channel closed and the writer returned Ok, the file holds one 16-bit sample
\* for every float sample received, the i-th being the conversion of the i-th
\* received, and total_samples is that count.
C27_WavHoldsEverySample ==
    /\ wavHeader # None =>
          wavHeader = Some([channels |-> 1, sample_rate |-> 24000,
                            bits_per_sample |-> 16, sample_format |-> "Int"])
    /\ wavFileResult = "ok" =>
          /\ wavHeader # None
          /\ ~wavTxOpen /\ wavChan = <<>>
          /\ Len(wavFile) = Len(wavRecv)
          /\ wavTotal = Len(wavRecv)
          /\ \A i \in 1..Len(wavFile) :
                /\ wavFile[i] \in -32768..32767
                /\ \E d \in Dithers : wavFile[i] = dither_f32_to_i16(wavRecv[i], d)

\* two chunks, one with a sample beyond full scale, written and finalized
C27_Witness ==
    /\ wavFileResult = "ok"
    /\ Len(wavFile) = MaxWavSamples
    /\ \E i \in 1..Len(wavRecv) : wavRecv[i] > I16_MAX
    /\ \E i \in 1..Len(wavRecv) : wavFile[i] # wavRecv[i]

\* an output callback moves from one statement to the next
CbStep == cbPc' # cbPc
\* the step in which the callback drains the ring under the lock
CbDrains == cbPc = "read" /\ cbPc' = "unlock"

C29_NoDrainMeansSilence ==
    [][CbStep =>
         /\ (cbPc = "decide" /\ ~started /\ cbLen < Thresholds.initial)
               => (cbPc' = "idle" /\ \A i \in 1..cbFrames : data'[i] = 0)
         /\ (cbPc = "decide" /\ started /\ ~playing /\ cbLen < Thresholds.resume)
               => (cbPc' = "read" /\ ~playing')
         /\ (cbPc = "decide" /\ started /\ playing /\ cbLen < Thresholds.pause)
               => (cbPc' = "read" /\ ~playing')
         /\ (cbPc = "read" /\ ~playing) => cbPc' = "silence"
         /\ cbPc = "silence" => (cbPc' = "idle" /\ \A i \in 1..cbFrames : data'[i] = 0)
         /\ ~CbDrains => UNCHANGED <<buffer, read_pos, write_pos>>
         /\ Len(data') = cbFrames']_vars

\* the pausing invocation has ended: silence over a stale buffer, samples
\* still queued in the ring
C29_Witness ==
    /\ started /\ ~playing
    /\ underrun_count > 0
    /\ cbPc = "idle"
    /\ cbFrames = MaxCallbackFrames
    /\ data = [i \in 1..cbFrames |-> 0]
    /\ buffer_level > 0

\* C30: no tracing call is made by a thread that holds the ring mutex, and the
\* callback does not hold it while it writes the device's output buffer.
C30_NoLoggingUnderLock ==
    /\ \A e \in ioLog : ~e.locked
    /\ cbPc \in {"write", "silence"} => lock # "callback"

\* the callback alone keeps its logging and its output writes outside the lock
C30_CallbackLogsUnlocked ==
    /\ \A e \in ioLog : e.by = "callback" => ~e.locked
    /\ cbPc \in {"write", "silence"} => lock # "callback"

\* the model thread takes a frame from the frame queue
TakesFrame == modelPc = "top" /\ modelPc' = "process"
\* neither the signal handler nor a processor error has set the flag
Undisturbed == ~signalled /\ ~procError

\* C31: with a file source and neither signal nor processor error, the model
\* thread takes the frames in the order sent, each once (the k-th frame it
\* takes is the k-th sent), the shutdown flag is set only when the source has
\* returned and every frame sent has been processed, and the thread then
\* returns Ok.
C31_AllFramesThenShutdown ==
    /\ [][(Undisturbed /\ TakesFrame) => Head(frameQ) = frame_times + 1]_vars
    /\ []((Undisturbed /\ shutdown) =>
             /\ capPc = "done"
             /\ frameQ = <<>>
             /\ frame_times = frame_idx
             /\ modelPc \in {"exit", "done"})
    /\ []((Undisturbed /\ modelPc = "done") => (shutdown /\ modelResult = "ok"))

\* the source sent all its frames and returned; the model thread processed them
\* all, set the flag and returned
C31_Witness ==
    /\ Undisturbed
    /\ capResult = "ok"
    /\ frame_idx = MaxFrames
    /\ frame_times = MaxFrames
    /\ shutdown
    /\ modelPc = "done"

\* process_frame returns Ok in this step
Processes == modelPc = "process" /\ frame_times' = frame_times + 1

\* C32: after process_frame returned, the model thread sends the chunk exactly
\* when it is non-empty and then the text exactly when there is one, the audio
\* send of a frame preceding its text send; it takes the next frame only when
\* both are done, so chunks and texts enter their channels in frame order (the
\* text channel holds frame numbers in increasing order, and no more chunks
\* were accepted than frames processed).
C32_AudioThenTextPerFrame ==
    /\ [][/\ Processes =>
                /\ modelOut'.audio > 0 <=> modelPc' = "sendAudio"
                /\ (modelOut'.audio = 0 /\ modelOut'.text) <=> modelPc' = "sendText"
          /\ (modelPc = "sendAudio" /\ modelPc' # modelPc) =>
                /\ modelOut.audio > 0
                /\ audioQ' = AfterSend(audioQ, AudioRxAlive, modelOut.audio)
                /\ modelPc' = IF modelOut.text THEN "sendText" ELSE "top"
                /\ textQ' = textQ
          /\ (modelPc = "sendText" /\ modelPc' # modelPc) =>
                /\ modelOut.text
                /\ textQ' = AfterSend(textQ, TextRxAlive, frame_times)
                /\ modelPc' = "top"
                /\ audioQ' = audioQ
          /\ (modelPc \notin {"sendAudio", "sendText"} /\ modelPc' = modelPc) =>
                /\ Len(textQ') <= Len(textQ)
                /\ audioSent' = audioSent]_vars
    /\ [](modelPc \in {"top", "process"} => modelOut = NoOut)
    /\ [](\A i, j \in 1..Len(textQ) : i < j => textQ[i] < textQ[j])
    /\ [](audioSent <= frame_times)

\* two frames, each with a chunk and a text: both chunks accepted, both texts
\* queued in frame order
C32_Witness ==
    /\ audioSent = 2
    /\ textQ = <<1, 2>>
    /\ modelPc = "top"

\* C33: a push_samples call adds 1 to the overflow counter when its input is
\* longer than the free space and 0 otherwise, nothing else changes the
\* counter, and one push longer than the whole ring into an empty sink that
\* never overflowed leaves the counter at 1.
C33_OverflowCountedPerCall ==
    [][/\ overflow_count' = overflow_count + (IF Written > Free THEN 1 ELSE 0)
       /\ (buffer_level = 0 /\ overflow_count = 0 /\ Written > RING_BUFFER_SIZE)
             => overflow_count' = 1]_vars

\* one burst longer than the ring went into the empty sink: counted once
C33_Witness ==
    /\ overflow_count = 1
    /\ nextId = MaxPush
    /\ ~started
    /\ write_pos = RING_BUFFER_SIZE - 1

\* C34: every step changes the underrun counter by exactly 1 when it takes the
\* sink from Playing to Paused and by 0 otherwise; in particular no step taken
\* while Buffering or while Paused changes it.
C34_UnderrunPerPause ==
    [][/\ underrun_count' = underrun_count
                              + (IF Playing /\ started' /\ ~playing' THEN 1 ELSE 0)
       /\ (Buffering \/ Paused) => underrun_count' = underrun_count]_vars

\* paused for the second time, the callback having run again since
C34_Witness ==
    /\ Paused
    /\ underrun_count = 2
    /\ cbPc = "checked"
    /\ cbLen < PAUSE_THRESHOLD

\* number of samples written into the ring so far (a push that has not yet
\* written has already numbered its samples)
LockWritten ==
    nextId - (IF pushPc \in {"called", "locked"} THEN Len(pushArg) ELSE 0)
\* push_samples writes in this step
PushWrites == pushPc = "locked" /\ pushPc' = "written"

\* C35: while no write has overflowed, the ring holds the newest `available`
\* samples written, oldest first; a write adds its whole input to the level, and
\* a read of count returns min(count, available) samples, the oldest unread in
\* the order written, and lowers the level by that number.
C35_FifoWithoutOverflow ==
    /\ [][overflow_count' = 0 =>
            /\ PushWrites =>
                  /\ buffer_level' = buffer_level + Len(pushArg)
                  /\ Content' = Content \o pushArg
            /\ CbDrains =>
                  LET k == Min(cbFrames, buffer_level)
                  IN  /\ Len(TEMP_BUF') = k
                      /\ \A i \in 1..k : TEMP_BUF'[i] = LockWritten - buffer_level + i
                      /\ buffer_level' = buffer_level - k]_vars
    /\ [](overflow_count = 0 =>
             /\ Len(Content) = buffer_level
             /\ \A i \in 1..Len(Content) : Content[i] = LockWritten - buffer_level + i)

\* a read that wrapped around the end of the array, after the write cursor had
\* wrapped, with no overflow so far
C35_Witness ==
    /\ overflow_count = 0
    /\ cbPc = "unlock"
    /\ Len(TEMP_BUF) = MaxCallbackFrames
    /\ 0 < read_pos /\ read_pos < Len(TEMP_BUF)
    /\ write_pos < RING_BUFFER_SIZE - 1
    /\ nextId >= RING_BUFFER_SIZE

\* the samples of a sequence
Elems(s) == {s[i] : i \in 1..Len(s)}
\* the callback copies what it read into the output buffer
CbRenders == cbPc = "write" /\ cbPc' = "idle"

\* C36: what the callback renders is what it read, every read takes the oldest
\* queued samples and leaves the rest, every write leaves queued only samples
\* that were queued or belong to its input, and the queued samples are always
\* in push order and were pushed; hence the rendered samples, in the order
\* rendered, are pushed samples in push order, none twice.
C36_RenderedIsSubsequence ==
    /\ [][/\ CbDrains => Content = TEMP_BUF' \o Content'
          /\ PushWrites => Elems(Content') \subseteq Elems(Content) \cup Elems(pushArg)
          /\ CbRenders =>
                /\ Len(TEMP_BUF) <= Len(data')
                /\ \A i \in 1..Len(data') :
                      data'[i] = IF i <= Len(TEMP_BUF) THEN TEMP_BUF[i] ELSE 0
          /\ ~(CbDrains \/ PushWrites) => Content' = Content]_vars
    /\ [](/\ Len(Content) = buffer_level
          /\ \A i \in 1..Len(Content) : Content[i] \in 1..LockWritten
          /\ \A i, j \in 1..Len(Content) : i < j => Content[i] < Content[j])

\* after two overflows, one by a push longer than the ring, the callback has
\* rendered samples it read between the level check and further pushes
C36_Witness ==
    /\ overflow_count >= 2
    /\ nextId > 2 * RING_BUFFER_SIZE
    /\ cbPc = "idle"
    /\ Len(data) = MaxCallbackFrames
    /\ data[1] > 0 /\ data[2] > data[1] + 1

\* the model thread takes a frame out of the queue
Dequeues == modelPc = "recv" /\ modelPc' = "process"
\* the positions of the model thread from which the loop head comes next or
\* the loop is over
PastTheFrame == modelPc \in {"sendAudio", "sendText", "top", "exit", "done"}

\* C37: once run_model_thread has returned the flag is true, whichever way the
\* loop ended; the flag is never cleared, and a monitoring loop that finds the
\* model thread returned goes on to the joins at its next check.
C37_ReturnedMeansShutdown ==
    /\ [](modelPc \in {"exit", "done"} => shutdown)
    /\ [][/\ shutdown => shutdown'
          /\ (modelPc = "done" /\ orchPc = "monitor" /\ orchPc' # orchPc)
                => orchPc' = "joinCapture"]_vars

\* the model thread returned after the capture closed the queue, nobody else
\* having set the flag, and run() has left its monitoring loop
C37_Witness ==
    /\ modelPc = "done" /\ modelResult = "ok"
    /\ ~signalled /\ ~procError
    /\ shutdown
    /\ orchPc = "joinModel"

OnePush(ch, input) == ResamplerPush(NewResampler(ch), input)
\* the frames of one push of the whole input followed by flush
OnePushAndFlush(ch, input) ==
    OnePush(ch, input).frames \o ResamplerFlush(OnePush(ch, input).self).frame

\* C39: however the input was cut into pieces of whole sample frames, the
\* frames returned by the pushes are those of one push of the whole input and
\* the resampler is left in the same state; after flush the frames returned
\* in all are those of one push of the whole input followed by flush.
C39_SplitIndependent ==
    /\ splitPc = "open" =>
          /\ splitOut = OnePush(resampler.channels, Flatten(splitFed)).frames
          /\ resampler = OnePush(resampler.channels, Flatten(splitFed)).self
    /\ splitPc = "flushed" =>
          splitOut = OnePushAndFlush(resampler.channels, Flatten(splitFed))

\* a stereo input pushed in three pieces, the first two ending inside a
\* block, then flushed with a padded last frame
C39_Witness ==
    /\ splitPc = "flushed"
    /\ resampler.channels = 2
    /\ Len(splitFed) = 3
    /\ Len(splitFed[1]) = 2 /\ Len(splitFed[2]) = 4 /\ Len(splitFed[3]) = 2
    /\ Len(splitOut) = 2
    /\ splitOut[Len(splitOut)][FrameLen] = ZeroSample

\* samples of the decoded file, once the tail is appended
Decoded == Len(pcm) - TailLen
\* the loop ran to its end, no shutdown was requested and the receiver exists
SrcUndisturbed == srcPc = "done" /\ ~shutdown /\ srcRx

\* C40: at 24 kHz, with no shutdown and the receiver in place, the file source
\* sends ceil((N + tail) / frame) frames, each of frame length, which read
\* one after the other are the N decoded samples followed by zeros.
C40_FramesAreInputThenZeros ==
    SrcUndisturbed =>
        /\ Len(srcSent) = CeilDiv(Decoded + TailLen, FrameLen)
        /\ \A k \in 1..Len(srcSent) : Len(srcSent[k]) = FrameLen
        /\ Len(Flatten(srcSent)) = Len(srcSent) * FrameLen
        /\ \A i \in 1..Len(Flatten(srcSent)) :
              Flatten(srcSent)[i] = IF i <= Decoded THEN pcm[i] ELSE 0

\* a file of 4 samples: 8 samples with the tail, three frames, the last one
\* padded by one zero
C40_Witness ==
    /\ SrcUndisturbed
    /\ Decoded = 4
    /\ pcm[1] = 1 /\ pcm[4] = 1
    /\ Len(srcSent) = 3
    /\ (Decoded + TailLen) % FrameLen # 0
====
